---- MODULE Spec2Model ----
(***************************************************************************)
(* Model of the arbitrary-precision decimal type (class BigNum of          *)
(* src/core/math/bignum.ts) and of the literal parser (parseNum and its    *)
(* helpers).  Strings are sequences of one-character strings; a BigInt is  *)
(* an integer, its decimal text is produced and parsed by the operators    *)
(* BigIntToString and BigInt below.                                        *)
(***************************************************************************)
EXTENDS Integers, Sequences, FiniteSets, TLC

(* ------------------------------ bounds -------------------------------- *)
\* longest literal handed to the constructor or to parseNum
MaxLen == 4
\* largest precision of a rounding context
MaxPrec == 2

\* the characters literals are made of
Chars == {"0", "1", "5", "-", "+", ".", "e"}

(* --------------------------- JavaScript strings ----------------------- *)
DigitChars == <<"0", "1", "2", "3", "4", "5", "6", "7", "8", "9">>

IsDigit(c) == \E i \in 1..10 : DigitChars[i] = c

DigitVal(c) == (CHOOSE i \in 1..10 : DigitChars[i] = c) - 1

AllDigits(s) == \A i \in 1..Len(s) : IsDigit(s[i])

Clamp(i, n) == IF i < 0 THEN 0 ELSE IF i > n THEN n ELSE i

\* String.prototype.substring(start, end)
Substring(s, start, end) ==
    LET a == Clamp(start, Len(s))
        b == Clamp(end, Len(s))
        lo == IF a < b THEN a ELSE b
        hi == IF a < b THEN b ELSE a
    IN  SubSeq(s, lo + 1, hi)

\* String.prototype.substring(start)
SubstringFrom(s, start) == Substring(s, start, Len(s))

\* String.prototype.indexOf(ch), 0-based, -1 when absent
IndexOf(s, ch) ==
    IF \E i \in 1..Len(s) : s[i] = ch
    THEN (CHOOSE i \in 1..Len(s) : s[i] = ch /\ \A j \in 1..(i-1) : s[j] # ch) - 1
    ELSE -1

RECURSIVE Split(_, _)
\* String.prototype.split(ch)
Split(s, ch) ==
    LET i == IndexOf(s, ch)
    IN  IF i = -1 THEN <<s>>
        ELSE <<SubSeq(s, 1, i)>> \o Split(SubSeq(s, i + 2, Len(s)), ch)

\* "".padEnd(n, ch)
Repeat(ch, n) == [i \in 1..n |-> ch]

RECURSIVE Pow10(_)
Pow10(n) == IF n <= 0 THEN 1 ELSE 10 * Pow10(n - 1)

Abs(n) == IF n < 0 THEN -n ELSE n

(* ------------------------------ BigInt -------------------------------- *)
\* the strings BigInt(string) accepts (others throw SyntaxError)
IsBigIntString(s) ==
    \/ s = <<>>
    \/ Len(s) >= 1 /\ AllDigits(s)
    \/ Len(s) >= 2 /\ s[1] \in {"+", "-"} /\ AllDigits(Tail(s))

RECURSIVE NatOf(_)
NatOf(s) == IF s = <<>> THEN 0
            ELSE 10 * NatOf(SubSeq(s, 1, Len(s) - 1)) + DigitVal(s[Len(s)])

\* BigInt(string) on an accepted string
BigInt(s) ==
    IF s = <<>> THEN 0
    ELSE IF s[1] = "-" THEN -NatOf(Tail(s))
    ELSE IF s[1] = "+" THEN NatOf(Tail(s))
    ELSE NatOf(s)

RECURSIVE NatToString(_)
NatToString(n) ==
    IF n < 10 THEN <<DigitChars[n + 1]>>
    ELSE NatToString(n \div 10) \o <<DigitChars[(n % 10) + 1]>>

\* BigInt.prototype.toString()
BigIntToString(n) == IF n < 0 THEN <<"-">> \o NatToString(-n) ELSE NatToString(n)

\* BigInt division truncates toward zero
TruncDiv(a, b) ==
    IF (a < 0) = (b < 0) THEN Abs(a) \div Abs(b) ELSE -(Abs(a) \div Abs(b))

\* BigInt remainder takes the sign of the dividend
TruncRem(a, b) == a - b * TruncDiv(a, b)

(* ----------------------- results of an operation ---------------------- *)
\* the value held where an operation threw
NoNum == [integer |-> <<>>, decimal |-> <<>>]

Ok(v) == [err |-> "none", val |-> v]

Throw(e) == [err |-> e, val |-> NoNum]

(* ------------------------------ BigNum -------------------------------- *)
RoundingMode ==
    {"UP", "DOWN", "CEIL", "FLOOR", "HALF_UP", "HALF_DOWN", "HALF_EVEN", "UNNECESSARY"}

\* BigNum.DEFAULT_CONTEXT.precision
DEFAULT_PRECISION == 17

\* the loop of the constructor over the integer part: i stops at the first
\* character that is not '0', and integer.substring(i) is kept
StripLeadingZeros(s) ==
    LET stops == {i \in 1..Len(s) : s[i] # "0"}
        i == IF stops = {} THEN Len(s) + 1
             ELSE CHOOSE k \in stops : \A j \in stops : k <= j
    IN  SubSeq(s, i, Len(s))

\* the loop of the constructor over the decimal part: i stops at the last
\* character that is not '0', and decimal.substring(0, i+1) is kept
StripTrailingZeros(s) ==
    LET stops == {i \in 1..Len(s) : s[i] # "0"}
        i == IF stops = {} THEN 0
             ELSE CHOOSE k \in stops : \A j \in stops : k >= j
    IN  SubSeq(s, 1, i)

OrZero(s) == IF s = <<>> THEN <<"0">> ELSE s

\* new BigNum(num)
NewBigNum(num) ==
    LET parts == Split(num, ".")
    IN  IF Len(parts) > 2 THEN Throw("NumberFormat")
        ELSE Ok([integer |-> OrZero(StripLeadingZeros(parts[1])),
                 decimal |-> IF Len(parts) = 2
                             THEN OrZero(StripTrailingZeros(parts[2]))
                             ELSE <<"0">>])

\* whether the getter asBigInt returns (BigInt(...) throws SyntaxError otherwise)
HasBigInt(x) == IsBigIntString(x.integer \o x.decimal)

\* get asBigInt
asBigInt(x) == BigInt(x.integer \o x.decimal)

\* get precision
precision(x) == Len(x.decimal)

\* get sign
sign(x) ==
    IF x.integer = <<"0">> /\ x.decimal = <<"0">> THEN 0
    ELSE IF x.integer # <<>> /\ x.integer[1] = "-" THEN -1
    ELSE 1

\* BigNum.abs(x)
abs(x) ==
    IF x.integer # <<>> /\ x.integer[1] = "-"
    THEN NewBigNum(Tail(x.integer) \o <<".">> \o x.decimal)
    ELSE Ok(x)

\* new BigNum(r.substring(0, i) + "." + r.substring(i))
Decimate(r, i) == NewBigNum(Substring(r, 0, i) \o <<".">> \o SubstringFrom(r, i))

\* a test of the dropped digits that forgets the negative numbers
RoundingNecessaryPositiveOnly(last) == last > 0

\* the test of case RoundingMode.UNNECESSARY
RoundingNecessary(last) == last > 0 \/ last < 0

\* the switch over context.rounding, without the throw of UNNECESSARY
Adjusted(rounding, rounded, last, five) ==
    CASE rounding = "UP" ->
            IF last > 0 THEN rounded + 1
            ELSE IF last < 0 THEN rounded - 1 ELSE rounded
      [] rounding = "DOWN" -> rounded
      [] rounding = "CEIL" -> IF last > 0 THEN rounded + 1 ELSE rounded
      [] rounding = "FLOOR" -> IF last < 0 THEN rounded - 1 ELSE rounded
      [] rounding = "HALF_DOWN" ->
            IF last > five THEN rounded + 1
            ELSE IF last < -five THEN rounded - 1 ELSE rounded
      [] rounding = "HALF_UP" ->
            IF last >= five THEN rounded + 1
            ELSE IF last <= -five THEN rounded - 1 ELSE rounded
      [] rounding = "HALF_EVEN" ->
            IF last > five THEN rounded + 1
            ELSE IF last < -five THEN rounded - 1
            ELSE IF Abs(TruncRem(rounded, 10)) % 2 # 0
                 THEN IF last = five THEN rounded + 1
                      ELSE IF last = -five THEN rounded - 1 ELSE rounded
                 ELSE rounded
      [] rounding = "UNNECESSARY" -> rounded

\* BigNum.round(x, context)
round(x, context) ==
    IF precision(x) > context.precision
    THEN IF ~HasBigInt(x) THEN Throw("SyntaxError")
         ELSE LET diff == precision(x) - context.precision
                  num == asBigInt(x)
                  divider == Pow10(diff)
                  rounded == TruncDiv(num, divider)
                  last == TruncRem(num, divider)
                  five == 5 * Pow10(diff - 1)
              IN  IF context.rounding = "UNNECESSARY" /\ RoundingNecessary(last)
                  THEN Throw("RoundingNecessary")
                  ELSE LET r == BigIntToString(
                                   Adjusted(context.rounding, rounded, last, five))
                       IN  Decimate(r, Len(r) - context.precision)
    ELSE Ok(x)

Max(a, b) == IF a > b THEN a ELSE b

\* the scaled sum or difference of add and sub; sgn is 1 for add, -1 for sub
Aligned(this, that, sgn) ==
    LET d == precision(this) - precision(that)
        padding == Pow10(Abs(d))
    IN  IF d > 0 THEN asBigInt(this) + sgn * asBigInt(that) * padding
        ELSE asBigInt(this) * padding + sgn * asBigInt(that)

\* this.add(that)
add(this, that) ==
    IF ~HasBigInt(this) \/ ~HasBigInt(that) THEN Throw("SyntaxError")
    ELSE LET sum == BigIntToString(Aligned(this, that, 1))
         IN  Decimate(sum, Len(sum) - Max(precision(this), precision(that)))

\* this.sub(that)
sub(this, that) ==
    IF ~HasBigInt(this) \/ ~HasBigInt(that) THEN Throw("SyntaxError")
    ELSE LET diff == BigIntToString(Aligned(this, that, -1))
         IN  Decimate(diff, Len(diff) - Max(precision(this), precision(that)))

\* this.mul(that)
mul(this, that) ==
    IF ~HasBigInt(this) \/ ~HasBigInt(that) THEN Throw("SyntaxError")
    ELSE LET prod == BigIntToString(asBigInt(this) * asBigInt(that))
         IN  Decimate(prod, Len(prod) - (precision(this) + precision(that)))

RECURSIVE LongDiv(_, _, _)
\* the digits of a quotient of naturals: ds is the dividend, d the divisor
LongDiv(ds, d, r) ==
    IF ds = <<>> THEN <<>>
    ELSE LET cur == 10 * r + DigitVal(ds[1])
         IN  <<DigitChars[(cur \div d) + 1]>> \o LongDiv(Tail(ds), d, cur % d)

\* (a / b).toString() for a = n * 10^raise: the dividend is divided digit by
\* digit, as it exceeds the integers of the model checker
QuoString(n, raise, b) ==
    LET ds == NatToString(Abs(n)) \o Repeat("0", raise)
        q == OrZero(StripLeadingZeros(LongDiv(ds, Abs(b), 0)))
    IN  IF q # <<"0">> /\ (n < 0) # (b < 0) THEN <<"-">> \o q ELSE q

\* this.div(that)
div(this, that) ==
    IF sign(that) = 0
    THEN IF sign(this) = 0 THEN Throw("IndeterminateForm")
         ELSE Throw("DivisionByZero")
    ELSE LET p == DEFAULT_PRECISION
             raise == p - precision(this) + precision(that)
         IN  IF ~HasBigInt(this) THEN Throw("SyntaxError")
             ELSE IF raise < 0 THEN Throw("RangeError")
             ELSE IF ~HasBigInt(that) THEN Throw("SyntaxError")
             ELSE IF asBigInt(that) = 0 THEN Throw("RangeError")
             ELSE LET q == QuoString(asBigInt(this), raise, asBigInt(that))
                      quo == IF p > Len(q) THEN Repeat("0", p - Len(q)) \o q ELSE q
                  IN  Decimate(quo, Len(quo) - p)

\* this.toString()
toString(x) == x.integer \o <<".">> \o x.decimal

(* ------------------------- parsing of literals ------------------------ *)
\* trimStart(s, zero): s.slice(i) from the first element that is not zero;
\* the elements of an array are compared with equals
trimStart(s, zero) ==
    LET stops == {i \in 1..Len(s) : s[i] # zero}
        i == IF stops = {} THEN Len(s) + 1
             ELSE CHOOSE k \in stops : \A j \in stops : k <= j
    IN  SubSeq(s, i, Len(s))

\* s.slice(0, i): the last element that is not zero is cut as well
trimEndShort(s, zero) ==
    LET stops == {i \in 1..Len(s) : s[i] # zero}
        i == IF stops = {} THEN 0
             ELSE CHOOSE k \in stops : \A j \in stops : k >= j
    IN  SubSeq(s, 1, i - 1)

\* trimEnd(s, zero): s.slice(0, i+1) to the last element that is not zero
trimEnd(s, zero) ==
    LET stops == {i \in 1..Len(s) : s[i] # zero}
        i == IF stops = {} THEN 0
             ELSE CHOOSE k \in stops : \A j \in stops : k >= j
    IN  SubSeq(s, 1, i)

\* trimZeroes(s, pos, zero), for a string and for an array
trimZeroes(s, pos, zero) ==
    IF pos = "end" THEN trimEnd(s, zero) ELSE trimStart(s, zero)

\* isInteger(s, positive): x in valids holds of the ten digit characters
isInteger(s, positive) ==
    LET signed == s # <<>> /\ (s[1] = "+" \/ (~positive /\ s[1] = "-"))
        st == IF signed THEN Tail(s) ELSE s
    IN  AllDigits(st)

isDecimal(s) ==
    LET parts == Split(s, ".")
    IN  IF Len(parts) > 2 THEN FALSE
        ELSE IF Len(parts) = 1 THEN isInteger(parts[1], FALSE)
        ELSE isInteger(parts[1], FALSE) /\ isInteger(parts[2], TRUE)

isValid(s) ==
    IF IndexOf(s, "e") > -1
    THEN LET i == IndexOf(s, "e")
         IN  isDecimal(Substring(s, 0, i)) /\ isInteger(SubstringFrom(s, i + 1), FALSE)
    ELSE isDecimal(s)

\* pad(s, n, "0", front)
pad(s, n, front) == IF front THEN Repeat("0", n) \o s ELSE s \o Repeat("0", n)

\* decimate(a, index) for a number index
decimate(a, index) ==
    IF index < 0 THEN Throw("NegativeIndex")
    ELSE LET neg == a # <<>> /\ a[1] = "-"
             s == IF neg THEN Tail(a) ELSE a
             sgn == IF neg THEN <<"-">> ELSE <<>>
         IN  Ok(sgn \o (IF index > Len(s)
                        THEN <<"0", ".">> \o pad(s, index - Len(s), TRUE)
                        ELSE Substring(s, 0, Len(s) - index) \o <<".">>
                                \o SubstringFrom(s, Len(s) - index)))

\* decimate(a, NaN): both comparisons are false and substring takes NaN as 0
decimateNaN(a) ==
    LET neg == a # <<>> /\ a[1] = "-"
        s == IF neg THEN Tail(a) ELSE a
    IN  Ok((IF neg THEN <<"-">> ELSE <<>>) \o <<".">> \o s)

\* Number(s) for a string isInteger accepts: NaN for a sign without digits
NumberIsNaN(s) == s \in {<<"+">>, <<"-">>}

NumberOf(s) == BigInt(s)

RECURSIVE Join(_)
\* Array.prototype.join("")
Join(parts) == IF parts = <<>> THEN <<>> ELSE Head(parts) \o Join(Tail(parts))

\* the pair parseNum returns for the text a
Trimmed(a) ==
    IF Len(a) = 1 THEN <<trimZeroes(a[1], "start", "0"), <<>>>>
    ELSE <<trimZeroes(a[1], "start", "0"), trimZeroes(a[2], "end", "0")>>

\* parseNum(s)
parseNum(s) ==
    IF ~isValid(s) THEN [err |-> "TypeError", val |-> <<>>]
    ELSE IF IndexOf(s, "e") > -1
    THEN LET i == IndexOf(s, "e")
             mantissa == Substring(s, 0, i)
             expText == SubstringFrom(s, i + 1)
             exponent == NumberOf(expText)
             index == IndexOf(mantissa, ".")
             prec == IF index = -1 THEN 0
                     ELSE Len(SubstringFrom(mantissa, index + 1))
             num == Join(Split(mantissa, "."))
             res == IF NumberIsNaN(expText) THEN decimateNaN(num)
                    ELSE IF exponent > prec
                    THEN Ok(pad(mantissa, exponent - prec, FALSE))
                    ELSE decimate(num, prec - exponent)
         IN  IF res.err # "none" THEN [err |-> res.err, val |-> <<>>]
             ELSE [err |-> "none", val |-> Trimmed(Split(res.val, "."))]
    ELSE [err |-> "none", val |-> Trimmed(Split(s, "."))]

(* ------------------- Decimal components of a HyperNumber -------------- *)
\* a Decimal: the unscaled integer n and the scale k, of value n / 10^k; the
\* canonical form has no zero at the end of the fractional digits
RECURSIVE Decimal(_, _)
Decimal(n, k) ==
    IF k > 0 /\ n % 10 = 0 THEN Decimal(n \div 10, k - 1) ELSE [n |-> n, k |-> k]

ZERO == Decimal(0, 0)

ONE == Decimal(1, 0)

\* the unscaled integer of x at the scale k >= x.k
Rescaled(x, k) == x.n * Pow10(k - x.k)

decAdd(x, y) ==
    LET k == Max(x.k, y.k) IN Decimal(Rescaled(x, k) + Rescaled(y, k), k)

decSub(x, y) ==
    LET k == Max(x.k, y.k) IN Decimal(Rescaled(x, k) - Rescaled(y, k), k)

decMul(x, y) == Decimal(x.n * y.n, x.k + y.k)

decNeg(x) == [n |-> -x.n, k |-> x.k]

\* the integer the rounding mode selects for num / den, den > 0
RoundedQuotient(num, den, rounding) ==
    LET f == num \div den
        r == num % den
        up == f + 1
        away == IF num > 0 THEN up ELSE f
        toward == IF num > 0 THEN f ELSE up
    IN  IF r = 0 THEN Ok(f)
        ELSE CASE rounding = "UP" -> Ok(away)
               [] rounding = "DOWN" -> Ok(toward)
               [] rounding = "CEIL" -> Ok(up)
               [] rounding = "FLOOR" -> Ok(f)
               [] rounding = "HALF_UP" ->
                    Ok(IF 2 * r > den THEN up ELSE IF 2 * r < den THEN f ELSE away)
               [] rounding = "HALF_DOWN" ->
                    Ok(IF 2 * r > den THEN up ELSE IF 2 * r < den THEN f ELSE toward)
               [] rounding = "HALF_EVEN" ->
                    Ok(IF 2 * r > den THEN up ELSE IF 2 * r < den THEN f
                       ELSE IF f % 2 = 0 THEN f ELSE up)
               [] OTHER -> Throw("RoundingNecessary")

\* x.div(y, context): the quotient rounded at context.precision fractional
\* digits.  The operands here are short, so the digits the quotient is raised
\* to before the rounding decide the same neighbour as the exact quotient.
decDiv(x, y, context) ==
    IF y.n = 0
    THEN (IF x.n = 0 THEN Throw("IndeterminateForm") ELSE Throw("DivisionByZero"))
    ELSE LET sgn == IF y.n < 0 THEN -1 ELSE 1
             num == sgn * x.n * Pow10(y.k + context.precision)
             den == sgn * y.n * Pow10(x.k)
             q == RoundedQuotient(num, den, context.rounding)
         IN  IF q.err # "none" THEN q ELSE Ok(Decimal(q.val, context.precision))

\* the largest integer whose square is at most n
FloorSqrt(n) == CHOOSE r \in 0..n : r * r <= n /\ (r + 1) * (r + 1) > n

\* the square root of x >= 0 rounded at context.precision fractional digits
decSqrt(x, context) ==
    LET p == IF 2 * context.precision >= x.k THEN context.precision
             ELSE (x.k + 1) \div 2
        n == x.n * Pow10(2 * p - x.k)
        f == FloorSqrt(n)
        exact == f * f = n
        up == f + 1
        nearer == IF 4 * n > (2 * f + 1) * (2 * f + 1) THEN up ELSE f
        rounding == context.rounding
        root == IF exact \/ rounding \in {"DOWN", "FLOOR"} THEN f
                ELSE IF rounding \in {"UP", "CEIL"} THEN up
                ELSE nearer
    IN  IF ~exact /\ rounding = "UNNECESSARY" THEN Throw("RoundingNecessary")
        ELSE IF p = context.precision THEN Ok(Decimal(root, p))
        ELSE decDiv(Decimal(root, p), ONE, context)

(* ----------------------------- HyperNumber ---------------------------- *)
RECURSIVE AlignFrom(_, _)
AlignFrom(n, d) == IF d >= n THEN d ELSE AlignFrom(n, 2 * d)

\* the smallest power of two that is at least n
Align(n) == AlignFrom(n, 1)

\* the constructor: the zero components at the end of the values are
\* trimmed, and what is left is padded with zeros to a power of two
NewHyper(values) ==
    LET args == trimZeroes(values, "end", ZERO)
        kept == IF args = <<>> THEN <<ZERO>> ELSE args
        dim == Align(Len(kept))
    IN  [dim |-> dim, components |-> kept \o [i \in 1..(dim - Len(kept)) |-> ZERO]]

\* the components of z zero-extended to the length dim
Extended(z, dim) == z.components \o [i \in 1..(dim - z.dim) |-> ZERO]

hyperNeg(z) == NewHyper([i \in 1..z.dim |-> decNeg(z.components[i])])

NegOf(a) == [i \in 1..Len(a) |-> decNeg(a[i])]

\* conj: component 0 is kept, the components 1..dim-1 are negated
ConjOf(a) == [i \in 1..Len(a) |-> IF i = 1 THEN a[i] ELSE decNeg(a[i])]

hyperConj(z) == NewHyper(ConjOf(z.components))

AddOf(a, b) == [i \in 1..Len(a) |-> decAdd(a[i], b[i])]

SubOf(a, b) == [i \in 1..Len(a) |-> decSub(a[i], b[i])]

hyperAdd(a, b) ==
    LET dim == Max(a.dim, b.dim)
    IN  NewHyper(AddOf(Extended(a, dim), Extended(b, dim)))

hyperSub(a, b) ==
    LET dim == Max(a.dim, b.dim)
    IN  NewHyper(SubOf(Extended(a, dim), Extended(b, dim)))

UpperHalfPlus(x, y) == AddOf(x, y)

\* the upper half of the product: a1 b1 minus conj(b2) a2
UpperHalfMinus(x, y) == SubOf(x, y)

LowerHalfMinus(x, y) == SubOf(x, y)

\* the lower half of the product: b2 a1 plus a2 conj(b1)
LowerHalfPlus(x, y) == AddOf(x, y)

RECURSIVE MulOf(_, _)
\* the Cayley-Dickson product of two component arrays of one length:
\* (a1, a2)(b1, b2) = (a1 b1 - conj(b2) a2, b2 a1 + a2 conj(b1))
MulOf(a, b) ==
    IF Len(a) = 1 THEN <<decMul(a[1], b[1])>>
    ELSE LET h == Len(a) \div 2
             a1 == SubSeq(a, 1, h)
             a2 == SubSeq(a, h + 1, Len(a))
             b1 == SubSeq(b, 1, h)
             b2 == SubSeq(b, h + 1, Len(b))
         IN  UpperHalfMinus(MulOf(a1, b1), MulOf(ConjOf(b2), a2))
                \o LowerHalfPlus(MulOf(b2, a1), MulOf(a2, ConjOf(b1)))

hyperMul(a, b) ==
    LET dim == Max(a.dim, b.dim)
    IN  NewHyper(MulOf(Extended(a, dim), Extended(b, dim)))

\* norm: self * conj(self), taken as a real number
hyperNorm(z) == NewHyper(<<hyperMul(z, hyperConj(z)).components[1]>>)

hyperAbsSq(z) == hyperNorm(z)

NoHyper == [dim |-> 0, components |-> <<>>]

Fail(e) == [err |-> e, val |-> NoHyper]

hyperAbs(z, context) ==
    LET root == decSqrt(hyperNorm(z).components[1], context)
    IN  IF root.err # "none" THEN Fail(root.err) ELSE Ok(NewHyper(<<root.val>>))

NormNeverZero(norm) == FALSE

\* the test of inv for a norm that is zero
NormIsZero(norm) == norm = ZERO

\* inv: conj(self) / norm, every component divided by the norm
hyperInv(z, context) ==
    LET norm == hyperNorm(z).components[1]
        conj == hyperConj(z)
        quo == [i \in 1..conj.dim |-> decDiv(conj.components[i], norm, context)]
    IN  IF NormIsZero(norm) THEN Fail("DivisionByZero")
        ELSE IF \E i \in 1..conj.dim : quo[i].err # "none"
        THEN Fail(quo[CHOOSE i \in 1..conj.dim : quo[i].err # "none"].err)
        ELSE Ok(NewHyper([i \in 1..conj.dim |-> quo[i].val]))

\* div(that, side): that.inv() * self on the left, self * that.inv() on the right
hyperDiv(self, that, side, context) ==
    LET inverse == hyperInv(that, context)
    IN  IF inverse.err # "none" THEN inverse
        ELSE IF side = "left" THEN Ok(hyperMul(inverse.val, self))
        ELSE Ok(hyperMul(self, inverse.val))

(* ---------------------------- state machine --------------------------- *)
VARIABLES
    lit,     \* the literal handed to the constructor or to parseNum
    parsed,  \* the pair parseNum returned for it
    acc,     \* the number held by the caller
    prev,    \* the number the last operation was applied to
    arg,     \* the operand of the last operation
    op,      \* the last operation
    ctx,     \* the context of the last rounding
    err,     \* the error the last operation threw, "none" if it returned
    hgiven,  \* the components handed to the HyperNumber constructor
    hself,   \* the HyperNumber constructed from them
    hthat,   \* the operand of the last HyperNumber operation
    hside,   \* the side of the last division
    hctx,    \* the context of the last HyperNumber operation
    hop,     \* the last HyperNumber operation
    hout,    \* the HyperNumber it returned
    herr,    \* the error it threw, "none" if it returned
    heap,    \* the Vector.Constant objects created so far, an object's
             \* identity being its position
    registry,  \* the map of unnamed vector constants, key to object
    named,   \* the map of named vector constants, name to object
    vop,     \* the last vector operation
    vin,     \* its arguments
    vout,    \* what it returned
    verr,    \* what it threw, "none" if it returned
    vseen,   \* an earlier call of Vector.constant(value) and its result
    top,     \* the transcendental function called
    tin,     \* its arguments, its context and what ln answers
    tout     \* the outcome: the value returned, the error thrown, or
             \* "NoReturn"

hvars == <<hgiven, hself, hthat, hside, hctx, hop, hout, herr>>

dvars == <<lit, parsed, acc, prev, arg, op, ctx, err>>

vvars == <<heap, registry, named, vop, vin, vout, verr, vseen>>

tvars == <<top, tin, tout>>

vars == <<lit, parsed, acc, prev, arg, op, ctx, err,
          hgiven, hself, hthat, hside, hctx, hop, hout, herr,
          heap, registry, named, vop, vin, vout, verr, vseen,
          top, tin, tout>>

\* the arguments, the result and the remembered call before any vector
\* operation
NoArguments == [a |-> <<>>, b |-> <<>>, this |-> 0, that |-> 0, i |-> 0]

NoValue == [id |-> 0, scalar |-> 0, flag |-> FALSE]

NoCall == [a |-> <<>>, id |-> 0]

\* the decimal zero, and the arguments before any transcendental function
\* is called
NoResult == [err |-> "none", work |-> 0, s |-> 0, m |-> <<>>, k |-> 0]

NoCallYet ==
    [x |-> NoResult, y |-> NoResult,
     context |-> [precision |-> 0, rounding |-> "HALF_EVEN"], guess |-> <<>>]

Strings == UNION {[1..k -> Chars] : k \in 0..MaxLen}

\* the characters of the literals numbers are constructed from
LitChars == {"0", "1", "5", "-", "."}

Literals == UNION {[1..k -> LitChars] : k \in 0..MaxLen}

\* the literals the operands of the binary operations are built from
OperandLiterals ==
    { <<"0">>, <<"-", "0">>, <<"1">>, <<"-", "2">>, <<"0", ".", "5">>,
      <<"0", ".", "0", "1">>, <<"-", "1", ".", "5">> }

Operands == {NewBigNum(s).val : s \in OperandLiterals}

Contexts == [precision : 0..MaxPrec, rounding : RoundingMode]

DEFAULT_CONTEXT == [precision |-> DEFAULT_PRECISION, rounding |-> "HALF_EVEN"]

Init ==
    /\ lit = <<>>
    /\ parsed = <<>>
    /\ acc = NoNum
    /\ prev = NoNum
    /\ arg = NoNum
    /\ op = "init"
    /\ ctx = DEFAULT_CONTEXT
    /\ err = "none"
    /\ hgiven = <<>>
    /\ hself = NoHyper
    /\ hthat = NoHyper
    /\ hside = "right"
    /\ hctx = DEFAULT_CONTEXT
    /\ hop = "init"
    /\ hout = NoHyper
    /\ herr = "none"
    /\ heap = <<>>
    /\ registry = {}
    /\ named = {}
    /\ vop = "init"
    /\ vin = NoArguments
    /\ vout = NoValue
    /\ verr = "none"
    /\ vseen = NoCall
    /\ top = "init"
    /\ tin = NoCallYet
    /\ tout = NoResult

\* the caller keeps its number when the operation throws
Apply(name, res, that, context) ==
    /\ prev' = acc
    /\ arg' = that
    /\ op' = name
    /\ ctx' = context
    /\ err' = res.err
    /\ acc' = IF res.err = "none" THEN res.val ELSE acc
    /\ UNCHANGED <<lit, parsed>>
    /\ UNCHANGED hvars
    /\ UNCHANGED vvars
    /\ UNCHANGED tvars

\* parseNum(s) for a string s
ParseNum ==
    /\ op = "init"
    /\ \E s \in Strings :
          /\ lit' = s
          /\ parsed' = parseNum(s).val
          /\ err' = parseNum(s).err
    /\ op' = "parseNum"
    /\ UNCHANGED <<acc, prev, arg, ctx>>
    /\ UNCHANGED hvars
    /\ UNCHANGED vvars
    /\ UNCHANGED tvars

\* new BigNum(s) for a literal s
Create ==
    /\ op = "init"
    /\ \E s \in Literals :
          /\ lit' = s
          /\ acc' = NewBigNum(s).val
          /\ err' = NewBigNum(s).err
    /\ op' = "create"
    /\ UNCHANGED <<parsed, prev, arg, ctx>>
    /\ UNCHANGED hvars
    /\ UNCHANGED vvars
    /\ UNCHANGED tvars

\* an operation is applied to the number a construction returned
Ready == op = "create" /\ err = "none"

Add == Ready /\ \E that \in Operands : Apply("add", add(acc, that), that, ctx)

Sub == Ready /\ \E that \in Operands : Apply("sub", sub(acc, that), that, ctx)

Mul == Ready /\ \E that \in Operands : Apply("mul", mul(acc, that), that, ctx)

Div == Ready /\ \E that \in Operands : Apply("div", div(acc, that), that, ctx)

AbsOp == Ready /\ Apply("abs", abs(acc), arg, ctx)

Round ==
    Ready /\ \E context \in Contexts :
                Apply("round", round(acc, context), arg, context)

Next ==
    \/ ParseNum
    \/ Create
    \/ Add
    \/ Sub
    \/ Mul
    \/ Div
    \/ AbsOp
    \/ Round

Spec == Init /\ [][Next]_vars

(* ---------------------- HyperNumber state machine --------------------- *)
\* a bound: the number of components handed to the constructor
MaxComps == 5

\* the values of the components handed to the constructor
Components == {Decimal(-2, 0), ZERO, ONE}

Given == UNION {[1..k -> Components] : k \in 1..MaxComps}

\* the operands of the binary operations, besides those derived from self
HyperOperands ==
    { NewHyper(<<Decimal(-2, 0)>>),
      NewHyper(<<ZERO, ONE>>),
      NewHyper(<<ONE, Decimal(-2, 0)>>),
      NewHyper(<<ZERO, ZERO, ONE>>),
      NewHyper(<<ONE, ZERO, Decimal(-2, 0), ONE>>),
      NewHyper(<<ZERO, ZERO, ZERO, ZERO, ONE>>),
      NewHyper(<<ZERO, ONE, ZERO, ZERO, ZERO, Decimal(-2, 0)>>) }

OperandsFor(z) == HyperOperands \cup {z, hyperNeg(z), hyperConj(z)}

HyperContexts ==
    [precision : 0..MaxPrec, rounding : {"HALF_EVEN", "UP", "UNNECESSARY"}]

\* the operation name on self with the operand that returned res
HyperApply(name, that, side, context, res) ==
    /\ hop' = name
    /\ hthat' = that
    /\ hside' = side
    /\ hctx' = context
    /\ herr' = res.err
    /\ hout' = res.val
    /\ UNCHANGED <<hgiven, hself>>
    /\ UNCHANGED dvars
    /\ UNCHANGED vvars
    /\ UNCHANGED tvars

\* new BigNum(values)
Construct ==
    /\ hop = "init"
    /\ \E values \in Given :
          /\ hgiven' = values
          /\ hself' = NewHyper(values)
    /\ hop' = "create"
    /\ UNCHANGED <<hthat, hside, hctx, hout, herr>>
    /\ UNCHANGED dvars
    /\ UNCHANGED vvars
    /\ UNCHANGED tvars

Constructed == hop = "create"

Negate == Constructed /\ HyperApply("neg", hthat, hside, hctx, Ok(hyperNeg(hself)))

Conjugate == Constructed /\ HyperApply("conj", hthat, hside, hctx, Ok(hyperConj(hself)))

Norm == Constructed /\ HyperApply("norm", hthat, hside, hctx, Ok(hyperNorm(hself)))

AbsSq == Constructed /\ HyperApply("absSq", hthat, hside, hctx, Ok(hyperAbsSq(hself)))

Absolute ==
    Constructed /\ \E context \in HyperContexts :
        HyperApply("abs", hthat, hside, context, hyperAbs(hself, context))

Invert ==
    Constructed /\ \E context \in HyperContexts :
        HyperApply("inv", hthat, hside, context, hyperInv(hself, context))

HyperSum ==
    Constructed /\ \E that \in OperandsFor(hself) :
        HyperApply("add", that, hside, hctx, Ok(hyperAdd(hself, that)))

HyperDifference ==
    Constructed /\ \E that \in OperandsFor(hself) :
        HyperApply("sub", that, hside, hctx, Ok(hyperSub(hself, that)))

HyperProduct ==
    Constructed /\ \E that \in OperandsFor(hself) :
        HyperApply("mul", that, hside, hctx, Ok(hyperMul(hself, that)))

\* the divisors: self and two of the operands
Divisors(z) == {z, NewHyper(<<ZERO, ONE>>), NewHyper(<<ZERO, ZERO, ONE>>)}

HyperQuotient ==
    Constructed /\ \E that \in Divisors(hself), side \in {"left", "right"},
                      context \in HyperContexts :
        HyperApply("div", that, side, context, hyperDiv(hself, that, side, context))

HyperNext ==
    \/ Construct
    \/ Negate
    \/ Conjugate
    \/ Norm
    \/ AbsSq
    \/ Absolute
    \/ Invert
    \/ HyperSum
    \/ HyperDifference
    \/ HyperProduct
    \/ HyperQuotient

HyperSpec == Init /\ [][HyperNext]_vars

(* ------------------- reading numbers, for the properties -------------- *)
SignedDigits(s) ==
    \/ AllDigits(s)
    \/ s # <<>> /\ s[1] \in {"-", "+"} /\ AllDigits(Tail(s))

\* x holds a number: digits after the point, an optionally signed run of
\* digits before it
IsNumber(x) == x.decimal # <<>> /\ AllDigits(x.decimal) /\ SignedDigits(x.integer)

\* the digits of x as one integer; the value of x is Unscaled(x) / 10^Scale(x)
Unscaled(x) == BigInt(x.integer \o x.decimal)

Scale(x) == Len(x.decimal)

\* the number of fractional digits of x: the stored "0" is no digit of x
FracDigits(x) == IF x.decimal = <<"0">> THEN 0 ELSE Len(x.decimal)

\* x has the value n / 10^k
HasValue(x, n, k) == IsNumber(x) /\ Unscaled(x) * Pow10(k) = n * Pow10(Scale(x))

SameValue(x, y) == IsNumber(x) /\ IsNumber(y) /\ HasValue(x, Unscaled(y), Scale(y))

\* canonical form: no superfluous zero at either end, at most one minus sign,
\* and no negative zero
Canonical(x) ==
    LET digits == IF x.integer # <<>> /\ x.integer[1] = "-"
                  THEN Tail(x.integer) ELSE x.integer
    IN  /\ digits # <<>> /\ AllDigits(digits)
        /\ Len(digits) > 1 => digits[1] # "0"
        /\ x.decimal # <<>> /\ AllDigits(x.decimal)
        /\ Len(x.decimal) > 1 => x.decimal[Len(x.decimal)] # "0"
        /\ ~(x.integer = <<"-", "0">> /\ x.decimal = <<"0">>)

\* a decimal literal: an optional sign, digits, at most one point, and at
\* least one digit
IsDecimalLiteral(s) ==
    LET body == IF s # <<>> /\ s[1] \in {"-", "+"} THEN Tail(s) ELSE s
        parts == Split(body, ".")
    IN  /\ Len(parts) <= 2
        /\ \A i \in 1..Len(parts) : AllDigits(parts[i])
        /\ \E i \in 1..Len(body) : IsDigit(body[i])

\* the value of a decimal literal is LiteralUnscaled(s) / 10^LiteralScale(s)
LiteralScale(s) == IF IndexOf(s, ".") = -1 THEN 0 ELSE Len(s) - IndexOf(s, ".") - 1

LiteralUnscaled(s) ==
    LET body == IF s[1] \in {"-", "+"} THEN Tail(s) ELSE s
        n == NatOf(Join(Split(body, ".")))
    IN  IF s[1] = "-" THEN -n ELSE n

\* the canonical text of n / 10^k: integer.fraction
CanonicalText(n, k) ==
    LET whole == NatToString(Abs(n) \div Pow10(k))
        frac == NatToString(Abs(n) % Pow10(k))
        padded == Repeat("0", k - Len(frac)) \o frac
        kept == {i \in 1..Len(padded) : padded[i] # "0"}
        fraction == IF k = 0 \/ kept = {} THEN <<"0">>
                    ELSE SubSeq(padded, 1, CHOOSE i \in kept : \A j \in kept : i >= j)
    IN  (IF n < 0 THEN <<"-">> ELSE <<>>) \o whole \o <<".">> \o fraction

\* floor(n / d) and ceil(n / d) for d > 0
Floor(n, d) == n \div d

Ceil(n, d) == IF n % d = 0 THEN n \div d ELSE (n \div d) + 1

\* the multiple of 10^-p (as a count of such units) a directed mode selects for
\* the value n / 10^k, k > p
Directed(mode, n, k, p) ==
    LET d == Pow10(k - p)
    IN  CASE mode = "CEIL" -> Ceil(n, d)
          [] mode = "FLOOR" -> Floor(n, d)
          [] mode = "UP" -> IF n >= 0 THEN Ceil(n, d) ELSE Floor(n, d)
          [] mode = "DOWN" -> IF n >= 0 THEN Floor(n, d) ELSE Ceil(n, d)

\* the multiple of 10^-p nearest to n / 10^k, a tie resolved as the mode says
Nearest(mode, n, k, p) ==
    LET d == Pow10(k - p)
        lo == Floor(n, d)
        twice == 2 * (n - lo * d)
    IN  IF twice < d THEN lo
        ELSE IF twice > d THEN lo + 1
        ELSE CASE mode = "HALF_UP" -> IF n >= 0 THEN lo + 1 ELSE lo
               [] mode = "HALF_DOWN" -> IF n >= 0 THEN lo ELSE lo + 1
               [] mode = "HALF_EVEN" -> IF lo % 2 = 0 THEN lo ELSE lo + 1

\* a rounding of a number to fewer digits than it has
Rounds(modes) ==
    /\ op = "round"
    /\ ctx.rounding \in modes
    /\ IsNumber(prev)
    /\ ctx.precision < FracDigits(prev)

(* ------------------------------ properties ---------------------------- *)
\* C1: rounding a number to a precision p below its count of fractional
\* digits under UP, DOWN, CEIL or FLOOR returns the directed neighbour of the
\* number among the multiples of 10^-p: away from zero, toward zero, the
\* smallest multiple not below it, the largest multiple not above it.
C1_DirectedRounding ==
    Rounds({"UP", "DOWN", "CEIL", "FLOOR"}) =>
        /\ err = "none"
        /\ HasValue(acc, Directed(ctx.rounding, Unscaled(prev), Scale(prev),
                                  ctx.precision), ctx.precision)

\* C2: rounding a number to a precision p below its count of fractional
\* digits under HALF_UP, HALF_DOWN or HALF_EVEN returns the nearest multiple
\* of 10^-p, a tie going away from zero, toward zero, or to the even digit.
C2_NearestRounding ==
    Rounds({"HALF_UP", "HALF_DOWN", "HALF_EVEN"}) =>
        /\ err = "none"
        /\ HasValue(acc, Nearest(ctx.rounding, Unscaled(prev), Scale(prev),
                                 ctx.precision), ctx.precision)

\* a digit of x after fractional position p is not zero
NonZeroAfter(x, p) == \E i \in (p + 1)..Len(x.decimal) : x.decimal[i] # "0"

\* C3: rounding under UNNECESSARY throws the rounding-necessary error exactly
\* when the number has a non-zero digit after fractional position p; when it
\* returns, the value returned equals the number rounded.
C3_Unnecessary ==
    (op = "round" /\ ctx.rounding = "UNNECESSARY" /\ IsNumber(prev)) =>
        /\ err \in {"none", "RoundingNecessary"}
        /\ err = "RoundingNecessary" <=> NonZeroAfter(prev, ctx.precision)
        /\ err = "none" => SameValue(acc, prev)

\* C3 happens: the rounding of a negative number with a non-zero digit after
\* position p > 0 was refused
C3_Witness ==
    /\ op = "round" /\ ctx.rounding = "UNNECESSARY" /\ IsNumber(prev)
    /\ err = "RoundingNecessary"
    /\ Unscaled(prev) < 0
    /\ ctx.precision > 0

\* C4: dividing by a number whose value is zero throws DivisionByZero when the
\* dividend is not zero and IndeterminateForm when it is zero too.
C4_DivisionByZero ==
    (op = "div" /\ IsNumber(prev) /\ IsNumber(arg) /\ Unscaled(arg) = 0) =>
        err = (IF Unscaled(prev) = 0 THEN "IndeterminateForm" ELSE "DivisionByZero")

\* the quotient of x by y is a multiple of 10^-k
ExactQuotient(x, y, k) ==
    (Abs(Unscaled(x)) * Pow10(Scale(y) + k)) % (Abs(Unscaled(y)) * Pow10(Scale(x))) = 0

\* the digits of fraction of the quotients C5 is checked on
QuotientDigits == 3

\* C5: a division whose exact quotient has few fractional digits (at most
\* QuotientDigits, well below the default precision) returns a well-formed
\* number equal to that quotient.
C5_ExactDivision ==
    (/\ op = "div" /\ IsNumber(prev) /\ IsNumber(arg) /\ Unscaled(arg) # 0
     /\ ExactQuotient(prev, arg, QuotientDigits)) =>
        /\ err = "none"
        /\ Canonical(acc)
        /\ Scale(acc) <= QuotientDigits
        /\ Unscaled(acc) * Pow10(QuotientDigits - Scale(acc)) * Unscaled(arg)
              * Pow10(Scale(prev))
           = Unscaled(prev) * Pow10(Scale(arg) + QuotientDigits)

\* C6: add returns the exact sum and sub the exact difference.
C6_ExactSum ==
    (op \in {"add", "sub"} /\ IsNumber(prev) /\ IsNumber(arg)) =>
        LET k == Max(Scale(prev), Scale(arg))
            a == Unscaled(prev) * Pow10(k - Scale(prev))
            b == Unscaled(arg) * Pow10(k - Scale(arg))
        IN  /\ err = "none"
            /\ HasValue(acc, IF op = "add" THEN a + b ELSE a - b, k)

\* C7: mul returns the exact product, of scale(a) + scale(b) fractional digits.
C7_ExactProduct ==
    (op = "mul" /\ IsNumber(prev) /\ IsNumber(arg)) =>
        /\ err = "none"
        /\ HasValue(acc, Unscaled(prev) * Unscaled(arg), Scale(prev) + Scale(arg))

\* C8: a number constructed from a decimal literal, and the number any
\* operation returns for it, is in canonical form.
C8_CanonicalForm ==
    (op \in {"create", "add", "sub", "mul", "div", "abs", "round"}
        /\ IsDecimalLiteral(lit) /\ err = "none") => Canonical(acc)

\* C9: the text of a number constructed from a decimal literal is the
\* canonical text integer.fraction of the literal's value, and constructing a
\* number from that text gives the same number.
C9_RoundTrip ==
    (op = "create" /\ IsDecimalLiteral(lit)) =>
        /\ err = "none"
        /\ toString(acc) = CanonicalText(LiteralUnscaled(lit), LiteralScale(lit))
        /\ NewBigNum(toString(acc)) = Ok(acc)

\* the positions of s where a sign may stand: the start of the mantissa and
\* the start of the exponent
SignPlaces(s) == {1} \cup {i + 1 : i \in {j \in 1..Len(s) : s[j] = "e"}}

\* s has a second point, a second exponent marker, or a character that is
\* neither a digit, a point, the exponent marker nor a sign in a sign's place
Malformed(s) ==
    \/ Cardinality({i \in 1..Len(s) : s[i] = "."}) > 1
    \/ Cardinality({i \in 1..Len(s) : s[i] = "e"}) > 1
    \/ \E i \in 1..Len(s) :
          /\ ~IsDigit(s[i]) /\ s[i] \notin {".", "e"}
          /\ ~(s[i] \in {"+", "-"} /\ i \in SignPlaces(s))

\* C10: parseNum throws the format error for every malformed string.
C10_FormatError ==
    (op = "parseNum" /\ Malformed(lit)) => err = "TypeError"

(* ------------------------- scientific notation ------------------------ *)
\* a literal in scientific notation: a decimal literal, the marker, and an
\* optionally signed exponent with at least one digit
IsScientificLiteral(s) ==
    LET i == IndexOf(s, "e")
    IN  /\ i > -1
        /\ IsDecimalLiteral(Substring(s, 0, i))
        /\ IsBigIntString(SubstringFrom(s, i + 1))
        /\ SubstringFrom(s, i + 1) # <<>>
        /\ IndexOf(SubstringFrom(s, i + 1), "e") = -1

SciMantissa(s) == Substring(s, 0, IndexOf(s, "e"))

SciExponent(s) == BigInt(SubstringFrom(s, IndexOf(s, "e") + 1))

\* the digits of a run without the zeros in front, and without those behind
SignificantFront(d) ==
    LET kept == {i \in 1..Len(d) : d[i] # "0"}
    IN  IF kept = {} THEN <<>>
        ELSE SubSeq(d, CHOOSE i \in kept : \A j \in kept : i <= j, Len(d))

SignificantBack(d) ==
    LET kept == {i \in 1..Len(d) : d[i] # "0"}
    IN  IF kept = {} THEN <<>>
        ELSE SubSeq(d, 1, CHOOSE i \in kept : \A j \in kept : i >= j)

\* the significant digits before and after the point of |m * 10^k|, for the
\* digits d of m read with f of them after the point
ShiftedDigits(d, f, k) ==
    LET scale == f - k
        whole == IF scale <= 0 THEN d \o Repeat("0", -scale)
                 ELSE SubSeq(d, 1, Len(d) - scale)
        frac == IF scale <= 0 THEN <<>>
                ELSE IF scale > Len(d) THEN Repeat("0", scale - Len(d)) \o d
                ELSE SubSeq(d, Len(d) - scale + 1, Len(d))
    IN  <<SignificantFront(whole), SignificantBack(frac)>>

\* the sign and the significant digits a parsed pair stands for
PairReading(a) ==
    LET signed == a[1] # <<>> /\ a[1][1] \in {"-", "+"}
        whole == IF signed THEN Tail(a[1]) ELSE a[1]
        digits == <<SignificantFront(whole), SignificantBack(a[2])>>
    IN  [ok |-> AllDigits(whole) /\ AllDigits(a[2]),
         digits |-> digits,
         negative |-> a[1] # <<>> /\ a[1][1] = "-" /\ digits # <<<<>>, <<>>>>]

\* the sign and the significant digits of m * 10^k for the literal s
ScientificReading(s) ==
    LET m == SciMantissa(s)
        body == IF m[1] \in {"-", "+"} THEN Tail(m) ELSE m
        digits == ShiftedDigits(Join(Split(body, ".")), LiteralScale(m),
                                SciExponent(s))
    IN  [ok |-> TRUE,
         digits |-> digits,
         negative |-> m[1] = "-" /\ digits # <<<<>>, <<>>>>]

\* C11: parsing a valid literal in scientific notation m e k returns integer
\* and fractional parts whose value is m * 10^k, whether k is below, equal to
\* or above the number of fractional digits of m.
C11_ScientificValue ==
    (op = "parseNum" /\ IsScientificLiteral(lit)) =>
        /\ err = "none"
        /\ Len(parsed) = 2
        /\ PairReading(parsed) = ScientificReading(lit)

(* ---------------------- properties of HyperNumbers -------------------- *)
\* the HyperNumber with the integers of s as its components
HyperOf(s) == NewHyper([i \in 1..Len(s) |-> Decimal(s[i], 0)])

\* the integer value of a component that has no fractional digits
IntegerOf(x) == x.n

\* the halves of z zero-extended to dim, as HyperNumbers of their own
UpperHalf(z, dim) == NewHyper(SubSeq(Extended(z, dim), 1, dim \div 2))

LowerHalf(z, dim) == NewHyper(SubSeq(Extended(z, dim), dim \div 2 + 1, dim))

\* (a1 b1 - conj(b2) a2, b2 a1 + a2 conj(b1)) with the products of the halves
\* taken by the multiplication itself
ProductOfHalves(a, b) ==
    LET dim == Max(a.dim, b.dim)
        a1 == UpperHalf(a, dim)
        a2 == LowerHalf(a, dim)
        b1 == UpperHalf(b, dim)
        b2 == LowerHalf(b, dim)
        upper == hyperSub(hyperMul(a1, b1), hyperMul(hyperConj(b2), a2))
        lower == hyperAdd(hyperMul(b2, a1), hyperMul(a2, hyperConj(b1)))
    IN  NewHyper(Extended(upper, dim \div 2) \o Extended(lower, dim \div 2))

\* the product of two complex numbers by the usual rule
ComplexProduct(a, b) ==
    LET x == Extended(a, 2)
        y == Extended(b, 2)
    IN  HyperOf(<<IntegerOf(x[1]) * IntegerOf(y[1]) - IntegerOf(x[2]) * IntegerOf(y[2]),
                  IntegerOf(x[1]) * IntegerOf(y[2]) + IntegerOf(x[2]) * IntegerOf(y[1])>>)

\* C12: the product of two HyperNumbers is the Cayley-Dickson product: the
\* Decimal product at dim 1, and at a larger common dim the pair
\* (a1 b1 - conj(b2) a2, b2 a1 + a2 conj(b1)) of the halves, each product of
\* halves being the product one level down; at dim 2 it is the complex
\* product, and e4 e1 = -e5.
C12_CayleyDickson ==
    hop = "mul" =>
        LET dim == Max(hself.dim, hthat.dim)
        IN  /\ herr = "none"
            /\ dim = 1 =>
                 hout = NewHyper(<<decMul(hself.components[1], hthat.components[1])>>)
            /\ dim > 1 => hout = ProductOfHalves(hself, hthat)
            /\ dim <= 2 => hout = ComplexProduct(hself, hthat)
            /\ (hself = HyperOf(<<0, 0, 0, 0, 1>>) /\ hthat = HyperOf(<<0, 1>>)) =>
                 hout = HyperOf(<<0, 0, 0, 0, 0, -1>>)

\* a quaternion was multiplied by an octonion with a non-zero lower half
C12_Witness ==
    /\ hop = "mul"
    /\ hself.dim = 4 /\ hthat.dim = 8
    /\ hself.components[2] # ZERO /\ hself.components[4] # ZERO
    /\ hout.dim = 8
    /\ hout.components[1] # ZERO

IsPowerOfTwo(n) == n >= 1 /\ Align(n) = n

\* the number of components of values up to the last one that is not zero,
\* and 1 when all of them are zero
Significant(values) ==
    LET kept == {i \in 1..Len(values) : values[i] # ZERO}
    IN  IF kept = {} THEN 1 ELSE CHOOSE i \in kept : \A j \in kept : i >= j

\* z holds the components of values, each at its position, and zeros elsewhere
Holds(z, values) ==
    /\ \A i \in 1..Len(values) :
          IF i <= z.dim THEN z.components[i] = values[i] ELSE values[i] = ZERO
    /\ \A i \in (Len(values) + 1)..z.dim : z.components[i] = ZERO

C14_Conjugate ==
    hop = "conj" =>
        /\ herr = "none"
        /\ hout.dim = hself.dim
        /\ hout.components[1] = hself.components[1]
        /\ \A i \in 2..hself.dim :
              decAdd(hout.components[i], hself.components[i]) = ZERO
        /\ hself.dim = 1 => hout = hself
        /\ hyperConj(hout) = hself

\* an octonion with a real part and an imaginary part in its lower half was
\* conjugated
C14_Witness ==
    /\ hop = "conj"
    /\ hself.dim = 8
    /\ hself.components[1] # ZERO /\ hself.components[5] # ZERO
    /\ hout # hself

RECURSIVE SumOfSquaresOf(_)
SumOfSquaresOf(a) ==
    IF a = <<>> THEN 0 ELSE IntegerOf(Head(a)) * IntegerOf(Head(a)) + SumOfSquaresOf(Tail(a))

\* the sum of the squares of the components of z, which are integers
SumOfSquares(z) == SumOfSquaresOf(z.components)

IsSquare(n) == \E r \in 0..n : r * r = n

\* z conj(z) is the real number of the sum of the squares, and so are norm(z)
\* and absSq(z)
RealNorm ==
    /\ (hop = "mul" /\ hthat = hyperConj(hself)) =>
          hout = HyperOf(<<SumOfSquares(hself)>>)
    /\ hop \in {"norm", "absSq"} =>
          /\ hout = HyperOf(<<SumOfSquares(hself)>>)
          /\ hyperNorm(hself) = hyperAbsSq(hself)

IsBasisElement(z, i) ==
    /\ i >= 1 /\ i < z.dim
    /\ \A j \in 1..z.dim : z.components[j] = IF j = i + 1 THEN ONE ELSE ZERO

\* C16: the HyperNumber with 1 in an imaginary slot and 0 elsewhere, multiplied
\* by itself, is the real number -1, a HyperNumber of dim 1.
C16_BasisSquare ==
    (hop = "mul" /\ hthat = hself /\ \E i \in 1..(hself.dim - 1) : IsBasisElement(hself, i)) =>
        /\ herr = "none"
        /\ hout = [dim |-> 1, components |-> <<Decimal(-1, 0)>>]

\* the basis element of slot 4, of dim 8, was squared
C16_Witness ==
    /\ hop = "mul" /\ hthat = hself
    /\ IsBasisElement(hself, 4) /\ hself.dim = 8
    /\ hout.dim = 1

IsZero(z) == \A i \in 1..z.dim : z.components[i] = ZERO

\* every component of z divided by the sum of the squares has at most
\* p fractional digits
ExactInverse(z, p) ==
    \A i \in 1..z.dim :
        (Abs(IntegerOf(z.components[i])) * Pow10(p)) % SumOfSquares(z) = 0

\* C17: a HyperNumber z that is not zero divided by itself, on the left and
\* on the right, is the real number 1.
C17_SelfQuotient ==
    (hop = "div" /\ hthat = hself /\ ~IsZero(hself)) =>
        /\ herr = "none"
        /\ hout = HyperOf(<<1>>)

\* C17 for the numbers with an exact inverse: when every component of z
\* divided by norm(z) has no more fractional digits than the precision of the
\* context, z divided by itself, on the left and on the right, is the real
\* number 1.
C17_SelfQuotientExact ==
    (/\ hop = "div" /\ hthat = hself /\ ~IsZero(hself)
     /\ ExactInverse(hself, hctx.precision)) =>
        /\ herr = "none"
        /\ hout = HyperOf(<<1>>)

\* an octonion of norm 4 was divided by itself on the left
C17_Witness ==
    /\ hop = "div" /\ hthat = hself /\ hside = "left"
    /\ hself.dim = 8 /\ SumOfSquares(hself) = 4
    /\ ExactInverse(hself, hctx.precision)
    /\ hout = HyperOf(<<1>>)

\* the unscaled integer of the Decimal x at the scale p >= x.k
UnitsOf(x, p) == x.n * Pow10(p - x.k)

\* r is component i of conj(z) divided by the norm of z and rounded at p
\* fractional digits: within one unit of the quotient, and within half a unit
\* when the mode rounds to the nearest
IsQuotientOfConj(r, z, i, context) ==
    LET c == IF i = 1 THEN IntegerOf(z.components[i]) ELSE -IntegerOf(z.components[i])
        p == context.precision
        off == Abs(UnitsOf(r, p) * SumOfSquares(z) - c * Pow10(p))
    IN  /\ r.k <= p
        /\ off < SumOfSquares(z)
        /\ context.rounding = "HALF_EVEN" => 2 * off <= SumOfSquares(z)
        /\ context.rounding = "UNNECESSARY" => off = 0

IntegerAt(z, i) == IF i <= z.dim THEN IntegerOf(z.components[i]) ELSE 0

\* C19: add and sub are elementwise after the shorter operand is extended
\* with zeros, operands of different dim cause no failure, and z.add(z.neg)
\* is the real zero, a HyperNumber of dim 1.
C19_Elementwise ==
    /\ hop \in {"add", "sub"} =>
          /\ herr = "none"
          /\ hout.dim <= Max(hself.dim, hthat.dim)
          /\ \A i \in 1..Max(hself.dim, hthat.dim) :
                IntegerAt(hout, i) =
                    IF hop = "add" THEN IntegerAt(hself, i) + IntegerAt(hthat, i)
                    ELSE IntegerAt(hself, i) - IntegerAt(hthat, i)
    /\ (hop = "add" /\ hthat = hyperNeg(hself)) =>
          hout = [dim |-> 1, components |-> <<ZERO>>]

\* an octonion was added to its negation
C19_Witness ==
    /\ hop = "add" /\ hthat = hyperNeg(hself)
    /\ hself.dim = 8 /\ hself.components[5] # ZERO
    /\ hout.dim = 1

\* the imaginary unit of the complex numbers
ImaginaryUnit == NewHyper(<<ZERO, ONE>>)

\* C20: the product is commutative and associative for the operands of dim 1
\* and 2, and the two laws do not both hold for all operands at a dim above
\* 2: a number of such a dim does not commute with the imaginary unit.
C20_CommutativeToDimTwo ==
    /\ (hop = "mul" /\ hself.dim <= 2 /\ hthat.dim <= 2) =>
          /\ hout = hyperMul(hthat, hself)
          /\ \A c \in {h \in OperandsFor(hself) : h.dim <= 2} :
                hyperMul(hout, c) = hyperMul(hself, hyperMul(hthat, c))
    /\ (hop = "mul" /\ hself.dim > 2 /\ hthat = ImaginaryUnit) =>
          hout # hyperMul(hthat, hself)

\* an octonion was multiplied by the imaginary unit, and the product in the
\* other order differs
C20_Witness ==
    /\ hop = "mul" /\ hself.dim = 8 /\ hthat = ImaginaryUnit
    /\ hself.components[1] # ZERO
    /\ hout # hyperMul(hthat, hself)

(* ------------------------ rounding as a whole -------------------------- *)
\* the distance between the numbers x and y, counted in units of 10^-k
Distance(x, y, k) ==
    Abs(Unscaled(x) * Pow10(k - Scale(x)) - Unscaled(y) * Pow10(k - Scale(y)))

\* C30: for every number x, every mode other than UNNECESSARY and every
\* precision p >= 0, round(x, {p, mode}) returns a number with at most p
\* fractional digits whose distance from x is below 10^-p (at most half of
\* 10^-p under the HALF modes), and returns x itself when x already has at
\* most p fractional digits.
C30_RoundContract ==
    (op = "round" /\ ctx.rounding # "UNNECESSARY" /\ IsNumber(prev)) =>
        LET p == ctx.precision
            k == Max(Max(Scale(prev), Scale(acc)), p)
        IN  /\ err = "none"
            /\ IsNumber(acc)
            /\ FracDigits(acc) <= p
            /\ Distance(acc, prev, k) < Pow10(k - p)
            /\ ctx.rounding \in {"HALF_UP", "HALF_DOWN", "HALF_EVEN"} =>
                   2 * Distance(acc, prev, k) <= Pow10(k - p)
            /\ FracDigits(prev) <= p => SameValue(acc, prev)

(* ------------------------------ Vector --------------------------------- *)
\* the objects a run may create
MaxObjects == 2

\* what Map.get returns for a key the map does not hold; an object is never 0
Undefined == 0

\* Map.get(key) and Map.set(key, c) of a map held as a set of entries
MapGet(m, key) ==
    IF \E e \in m : e.key = key
    THEN (CHOOSE e \in m : e.key = key).obj
    ELSE Undefined

MapSet(m, key, c) == {e \in m : e.key # key} \cup {[key |-> key, obj |-> c]}

\* Scalar.constant(x): the scalar constant holding the number x
ScalarConstant(x) == [value |-> x]

\* new Vector.Constant(value, name): every number wrapped in a scalar
NewVectorConstant(value, name) ==
    [value |-> [i \in 1..Len(value) |-> ScalarConstant(value[i])],
     name |-> name]

\* a.join() of an array of integers: their decimal texts, a comma between
RECURSIVE ArrayJoin(_)

ArrayJoin(a) ==
    IF a = <<>> THEN <<>>
    ELSE IF Len(a) = 1 THEN BigIntToString(a[1])
    ELSE BigIntToString(a[1]) \o <<",">> \o ArrayJoin(Tail(a))

\* the index the loop would stop at if it dropped nothing
LastIndex(a) == Len(a) - 1

\* the index i the loop of Vector.constant stops at: that of the last
\* element that is not 0, counted from 0, or -1
LastNonZeroIndex(a) ==
    IF \A j \in 1..Len(a) : a[j] = 0 THEN -1
    ELSE (CHOOSE j \in 1..Len(a) :
              a[j] # 0 /\ \A k \in (j + 1)..Len(a) : a[k] = 0) - 1

\* the key of an array in the map of unnamed constants
KeyOf(a) == ArrayJoin(SubSeq(a, 1, LastNonZeroIndex(a) + 1))

\* the maps and the objects Vector.constant works on
VectorState == [heap |-> heap, registry |-> registry, named |-> named]

Returned(st, c) == [err |-> "none", id |-> c, st |-> st]

Thrown(st, e) == [err |-> e, id |-> Undefined, st |-> st]

\* a test of a name that never finds it bound
NeverBound(c) == FALSE

\* c !== undefined
Bound(c) == c # Undefined

\* Vector.constant(a) and Vector.constant(a, b) for an array a; b is <<>>
\* when the call passes no name and <<name>> when it passes one
VectorConstant(a, b, st) ==
    LET key == KeyOf(a)
        fresh == Len(st.heap) + 1
    IN  IF b = <<>>
        THEN LET c == MapGet(st.registry, key)
             IN  IF c = Undefined
                 THEN Returned([heap |-> Append(st.heap,
                                                NewVectorConstant(a, "")),
                                registry |-> MapSet(st.registry, key, fresh),
                                named |-> st.named], fresh)
                 ELSE Returned(st, c)
        ELSE LET c == MapGet(st.named, b[1])
             IN  IF Bound(c)
                 THEN Thrown(st, "Attempt to redefine a constant")
                 ELSE Returned([heap |-> Append(st.heap,
                                                NewVectorConstant(a, b[1])),
                                registry |-> st.registry,
                                named |-> MapSet(st.named, b[1], fresh)],
                               fresh)

\* Vector.constant(a) for a name a
VectorConstantNamed(a, st) ==
    LET c == MapGet(st.named, a)
    IN  IF c = Undefined THEN Thrown(st, "No such constant defined")
        ELSE Returned(st, c)

\* an index test that leaves the last component out
BelowLength(i, length) == i < length

\* i <= value.length
WithinLength(i, length) == i <= length

\* X(i) of a vector constant holding value
X(value, i) ==
    IF i <= 0 THEN [err |-> "Indexing starts from 1", val |-> ScalarConstant(0)]
    ELSE [err |-> "none",
          val |-> IF WithinLength(i, Len(value)) THEN value[i]
                  ELSE ScalarConstant(0)]

\* Math.abs(d) >= tolerance for the default tolerance 1e-14 and a
\* difference d of two integers
OutOfTolerance(d) == Abs(d) >= 1

\* this.equals(that)
vectorEquals(this, that) ==
    LET m == Max(Len(this.value), Len(that.value))
    IN  \A i \in 1..m :
            ~OutOfTolerance(X(this.value, i).val.value
                            - X(that.value, i).val.value)

\* this.add(that) and this.sub(that) of two vector constants
vectorAdd(this, that, st) ==
    LET m == Max(Len(this.value), Len(that.value))
        vec == [i \in 1..m |-> X(this.value, i).val.value
                               + X(that.value, i).val.value]
    IN  VectorConstant(vec, <<>>, st)

vectorSub(this, that, st) ==
    LET m == Max(Len(this.value), Len(that.value))
        vec == [i \in 1..m |-> X(this.value, i).val.value
                               - X(that.value, i).val.value]
    IN  VectorConstant(vec, <<>>, st)

\* the value of parallel after the loop of dot has run to i
RECURSIVE DotTo(_, _, _)

DotTo(this, that, i) ==
    IF i = 0 THEN 0
    ELSE DotTo(this, that, i - 1)
         + X(this.value, i).val.value * X(that.value, i).val.value

\* this.dot(that) of two vector constants
vectorDot(this, that) ==
    ScalarConstant(DotTo(this, that, Max(Len(this.value), Len(that.value))))

(* ------------------------ Vector state machine ------------------------- *)
\* the arrays, names and indices the calls are made with
Arrays == {<<0>>, <<1>>, <<1, 0>>, <<-1, 1>>}

Names == {"A", "B"}

Indices == -1..2

\* the objects created so far
Objects == 1..Len(heap)

\* the operation name called with args left the maps as res.st and returned
\* out or threw res.err; the call before it may be the one remembered
VectorApply(name, args, res, out) ==
    /\ Len(res.st.heap) <= MaxObjects
    /\ vop' = name
    /\ vin' = args
    /\ verr' = res.err
    /\ vout' = out
    /\ heap' = res.st.heap
    /\ registry' = res.st.registry
    /\ named' = res.st.named
    /\ vseen' \in IF vop = "constant" /\ verr = "none"
                  THEN {vseen, [a |-> vin.a, id |-> vout.id]}
                  ELSE {vseen}
    /\ UNCHANGED dvars
    /\ UNCHANGED hvars
    /\ UNCHANGED tvars

\* Vector.constant(a)
ConstantOf ==
    \E a \in Arrays :
        LET res == VectorConstant(a, <<>>, VectorState)
        IN  VectorApply("constant", [NoArguments EXCEPT !.a = a], res,
                        [NoValue EXCEPT !.id = res.id])

\* Vector.constant(a, b)
Define ==
    \E a \in Arrays, b \in Names :
        LET res == VectorConstant(a, <<b>>, VectorState)
        IN  VectorApply("define", [NoArguments EXCEPT !.a = a, !.b = <<b>>],
                        res, [NoValue EXCEPT !.id = res.id])

\* Vector.constant(name)
Lookup ==
    \E b \in Names :
        LET res == VectorConstantNamed(b, VectorState)
        IN  VectorApply("lookup", [NoArguments EXCEPT !.b = <<b>>], res,
                        [NoValue EXCEPT !.id = res.id])

\* this.X(i)
Component ==
    \E this \in Objects, i \in Indices :
        LET res == X(heap[this].value, i)
        IN  VectorApply("X", [NoArguments EXCEPT !.this = this, !.i = i],
                        [err |-> res.err, st |-> VectorState],
                        [NoValue EXCEPT !.scalar = res.val.value])

\* this.equals(that)
VectorEquals ==
    \E this \in Objects, that \in Objects :
        VectorApply("equals",
                    [NoArguments EXCEPT !.this = this, !.that = that],
                    Returned(VectorState, Undefined),
                    [NoValue EXCEPT
                        !.flag = vectorEquals(heap[this], heap[that])])

\* this.add(that)
VectorSum ==
    \E this \in Objects, that \in Objects :
        LET res == vectorAdd(heap[this], heap[that], VectorState)
        IN  VectorApply("add",
                        [NoArguments EXCEPT !.this = this, !.that = that],
                        res, [NoValue EXCEPT !.id = res.id])

\* this.sub(that)
VectorDifference ==
    \E this \in Objects, that \in Objects :
        LET res == vectorSub(heap[this], heap[that], VectorState)
        IN  VectorApply("sub",
                        [NoArguments EXCEPT !.this = this, !.that = that],
                        res, [NoValue EXCEPT !.id = res.id])

\* this.dot(that)
VectorDot ==
    \E this \in Objects, that \in Objects :
        VectorApply("dot",
                    [NoArguments EXCEPT !.this = this, !.that = that],
                    Returned(VectorState, Undefined),
                    [NoValue EXCEPT
                        !.scalar = vectorDot(heap[this], heap[that]).value])

VectorNext ==
    \/ ConstantOf
    \/ Define
    \/ Lookup
    \/ Component
    \/ VectorEquals
    \/ VectorSum
    \/ VectorDifference
    \/ VectorDot

VectorSpec == Init /\ [][VectorNext]_vars

(* --------------------------- Vector properties ------------------------- *)
\* component i of an array read as a vector of any length
Coordinate(a, i) == IF i \in 1..Len(a) THEN a[i] ELSE 0

\* the numbers an object holds
NumbersOf(c) == [i \in 1..Len(heap[c].value) |-> heap[c].value[i].value]

\* two arrays are equal once their trailing zeros are dropped
EqualArrays(a, b) ==
    \A i \in 1..Max(Len(a), Len(b)) : Coordinate(a, i) = Coordinate(b, i)

\* C25: Vector.constant(v) without a name returns the object an earlier
\* call returned exactly when the two arrays are equal once trailing zeros
\* are dropped, and never returns an object registered under a name.
C25_SameObject ==
    vop = "constant" =>
        /\ verr = "none"
        /\ vseen # NoCall => (vout.id = vseen.id <=> EqualArrays(vin.a, vseen.a))
        /\ \A e \in named : e.obj # vout.id

\* an array returns the object a longer, zero-ended array created, with a
\* name bound to a third object
C25_Witness ==
    /\ vop = "constant"
    /\ vseen # NoCall
    /\ vout.id = vseen.id
    /\ Len(vin.a) < Len(vseen.a)
    /\ named # {}

Base == 10000

Limb(a, i) == IF i \in 1..Len(a) THEN a[i] ELSE 0

NatNorm(a) ==
    LET nz == {i \in 1..Len(a) : a[i] # 0}
    IN  IF nz = {} THEN <<>>
        ELSE SubSeq(a, 1, CHOOSE i \in nz : \A j \in nz : j <= i)

\* count passes of a loop body from the variables st, or fewer when a pass
\* leaves the loop (done); the passes are split in halves, which keeps the
\* evaluation shallow
RECURSIVE Passes(_, _, _)
Passes(pass(_), st, count) ==
    IF st.done \/ count = 0 THEN st
    ELSE IF count = 1 THEN pass(st)
    ELSE LET h == count \div 2
             first == Passes(pass, st, h)
         IN  IF first.done THEN first ELSE Passes(pass, first, count - h)

\* the variables of a loop over the limbs: the index, the carry, the limbs
\* written so far
Limbs(i, carry, out) == [done |-> FALSE, i |-> i, carry |-> carry, out |-> out]

\* the limbs of a natural number n
NatOfInt(n) ==
    NatNorm(<<n % Base, (n \div Base) % Base, n \div (Base * Base)>>)

\* -1, 0 or 1 as a is less than, equal to or more than b
NatCmp(a, b) ==
    IF Len(a) # Len(b) THEN (IF Len(a) < Len(b) THEN -1 ELSE 1)
    ELSE LET d == {i \in 1..Len(a) : a[i] # b[i]}
         IN  IF d = {} THEN 0
             ELSE LET h == CHOOSE i \in d : \A j \in d : j <= i
                  IN  IF a[h] < b[h] THEN -1 ELSE 1

NatAdd(a, b) ==
    LET n == Max(Len(a), Len(b)) + 1
        pass(st) ==
            LET t == Limb(a, st.i) + Limb(b, st.i) + st.carry
            IN  Limbs(st.i + 1, t \div Base, Append(st.out, t % Base))
    IN  NatNorm(Passes(pass, Limbs(1, 0, <<>>), n).out)

\* a - b for a >= b
NatSub(a, b) ==
    LET pass(st) ==
            LET t == Limb(a, st.i) - Limb(b, st.i) - st.carry
            IN  Limbs(st.i + 1, IF t < 0 THEN 1 ELSE 0,
                      Append(st.out, IF t < 0 THEN t + Base ELSE t))
    IN  NatNorm(Passes(pass, Limbs(1, 0, <<>>), Len(a)).out)

\* a * s for a number s below 10 * Base
NatMulSmall(a, s) ==
    LET n == Len(a) + 2
        pass(st) ==
            LET t == Limb(a, st.i) * s + st.carry
            IN  Limbs(st.i + 1, t \div Base, Append(st.out, t % Base))
    IN  NatNorm(Passes(pass, Limbs(1, 0, <<>>), n).out)

NatMul(a, b) ==
    LET n == Len(a) + Len(b)
        Column(k) ==
            LET term(st) ==
                    Limbs(st.i + 1,
                          st.carry + Limb(a, st.i) * Limb(b, k + 1 - st.i),
                          <<>>)
            IN  Passes(term, Limbs(1, 0, <<>>),
                       IF k < Len(a) THEN k ELSE Len(a)).carry
        pass(st) ==
            LET t == Column(st.i) + st.carry
            IN  Limbs(st.i + 1, t \div Base, Append(st.out, t % Base))
    IN  NatNorm(Passes(pass, Limbs(1, 0, <<>>), n).out)

\* 10^k and a * 10^k
NatPow10(k) == [i \in 1..(k \div 4) |-> 0] \o <<Pow10(k % 4)>>

NatShift10(a, k) ==
    IF a = <<>> THEN <<>>
    ELSE [i \in 1..(k \div 4) |-> 0] \o NatMulSmall(a, Pow10(k % 4))

\* the quotient and the remainder of a by b > 0, limb by limb from the top,
\* each limb of the quotient found by bisection
NatDivMod(a, b) ==
    LET Find(rem) ==
            LET halve(st) ==
                    LET mid == (st.lo + st.hi + 1) \div 2
                    IN  IF st.lo = st.hi THEN [st EXCEPT !.done = TRUE]
                        ELSE IF NatCmp(NatMulSmall(b, mid), rem) <= 0
                        THEN [st EXCEPT !.lo = mid]
                        ELSE [st EXCEPT !.hi = mid - 1]
            IN  Passes(halve, [done |-> FALSE, lo |-> 1, hi |-> Base - 1],
                       15).lo
        pass(st) ==
            LET cur == NatNorm(<<a[st.i]>> \o st.carry)
                d == IF NatCmp(cur, b) < 0 THEN 0
                     ELSE IF Len(b) = 1
                     THEN (Limb(cur, 2) * Base + Limb(cur, 1)) \div b[1]
                     ELSE Find(cur)
            IN  Limbs(st.i - 1,
                      IF d = 0 THEN cur ELSE NatSub(cur, NatMulSmall(b, d)),
                      <<d>> \o st.out)
        last == Passes(pass, Limbs(Len(a), <<>>, <<>>), Len(a))
    IN  [q |-> NatNorm(last.out), r |-> last.carry]

\* the largest natural number whose square is at most a, by Newton's
\* iteration from a power of the base above the root
NatSqrt(a) ==
    LET two == <<2>>
        Newton(st) ==
            LET y == NatDivMod(NatAdd(st.x, NatDivMod(a, st.x).q), two).q
            IN  IF NatCmp(y, st.x) >= 0 THEN [st EXCEPT !.done = TRUE]
                ELSE [st EXCEPT !.x = y]
    IN  IF a = <<>> THEN <<>>
        ELSE Passes(Newton,
                    [done |-> FALSE,
                     x |-> [i \in 1..((Len(a) + 1) \div 2) |-> 0] \o <<1>>],
                    16 * (Len(a) + 1)).x

\* the quotient and the remainder of a by 10^j
NatDivPow10(a, j) ==
    LET hi == SubSeq(a, j \div 4 + 1, Len(a))
        q == IF j % 4 = 0 THEN hi ELSE NatDivMod(hi, <<Pow10(j % 4)>>).q
    IN  [q |-> q, r |-> NatSub(a, NatShift10(q, j))]

\* the count of zero digits at the end of a > 0
TrailingZeros(a) ==
    LET z == (CHOOSE i \in 1..Len(a) : a[i] # 0 /\ \A j \in 1..(i - 1) : a[j] = 0) - 1
        l == a[z + 1]
    IN  4 * z + (IF l % 1000 = 0 THEN 3 ELSE IF l % 100 = 0 THEN 2
                 ELSE IF l % 10 = 0 THEN 1 ELSE 0)

(* ------------------------- Component: decimals ------------------------- *)
\* A Component is the number s * m / 10^k in canonical form: s is its sign,
\* m the limbs of the magnitude of its unscaled integer, k its scale.  err
\* names the error thrown where a value was expected, and work counts the
\* series terms that were summed on the way to the value.
Comp(s, m, k) ==
    IF m = <<>> THEN [err |-> "none", work |-> 0, s |-> 0, m |-> <<>>, k |-> 0]
    ELSE LET t == IF TrailingZeros(m) < k THEN TrailingZeros(m) ELSE k
         IN  [err |-> "none", work |-> 0, s |-> s,
              m |-> IF t = 0 THEN m ELSE NatDivPow10(m, t).q, k |-> k - t]

Failed(e, w) == [err |-> e, work |-> w, s |-> 0, m |-> <<>>, k |-> 0]

\* the value the operands x and y gave, or the error one of them stands for
After(x, y, v) ==
    IF x.err # "none" THEN x
    ELSE IF y.err # "none" THEN y
    ELSE [v EXCEPT !.work = Max(Max(x.work, y.work), v.work)]

\* Component.create(n) for an integer n, and for n / 10^k
create(n, k) == Comp(IF n < 0 THEN -1 ELSE 1, NatOfInt(Abs(n)), k)

CZERO == create(0, 0)

CONE == create(1, 0)

CTWO == create(2, 0)

\* Component.PI, to thirty fractional digits
PI == Comp(1, <<3279, 4338, 4626, 3238, 8979, 6535, 1592, 314>>, 30)

\* the magnitude a rounding mode selects for s * (q + r / den), r < den
Rounded(s, q, r, den, rounding) ==
    LET up == NatAdd(q, <<1>>)
        half == NatCmp(NatMulSmall(r, 2), den)
    IN  IF r = <<>> THEN [err |-> "none", m |-> q]
        ELSE CASE rounding = "UP" -> [err |-> "none", m |-> up]
               [] rounding = "DOWN" -> [err |-> "none", m |-> q]
               [] rounding = "CEIL" ->
                    [err |-> "none", m |-> IF s > 0 THEN up ELSE q]
               [] rounding = "FLOOR" ->
                    [err |-> "none", m |-> IF s > 0 THEN q ELSE up]
               [] rounding = "HALF_UP" ->
                    [err |-> "none", m |-> IF half >= 0 THEN up ELSE q]
               [] rounding = "HALF_DOWN" ->
                    [err |-> "none", m |-> IF half > 0 THEN up ELSE q]
               [] rounding = "HALF_EVEN" ->
                    [err |-> "none",
                     m |-> IF half > 0 THEN up ELSE IF half < 0 THEN q
                           ELSE IF Limb(q, 1) % 2 = 0 THEN q ELSE up]
               [] OTHER -> [err |-> "RoundingNecessary", m |-> q]

\* Component.round(x, context)
compRound(x, context) ==
    IF x.err # "none" \/ x.k <= context.precision THEN x
    ELSE LET j == x.k - context.precision
             d == NatDivPow10(x.m, j)
             r == Rounded(x.s, d.q, d.r, NatPow10(j), context.rounding)
         IN  IF r.err # "none" THEN Failed(r.err, x.work)
             ELSE After(x, x, Comp(x.s, r.m, context.precision))

\* x.neg and Component.abs(x, context)
compNeg(x) == IF x.err # "none" THEN x ELSE [x EXCEPT !.s = -x.s]

compAbs(x, context) == IF x.err # "none" THEN x ELSE [x EXCEPT !.s = x.s * x.s]

\* x.compareTo(y), x.lessThan(y) and x.moreThan(y) for two values
compareTo(x, y) ==
    IF x.s # y.s THEN (IF x.s < y.s THEN -1 ELSE 1)
    ELSE LET k == Max(x.k, y.k)
         IN  x.s * NatCmp(NatShift10(x.m, k - x.k), NatShift10(y.m, k - y.k))

lessThan(x, y) == compareTo(x, y) < 0

moreThan(x, y) == compareTo(x, y) > 0

\* the exact sum of two values
Sum(x, y) ==
    LET k == Max(x.k, y.k)
        a == NatShift10(x.m, k - x.k)
        b == NatShift10(y.m, k - y.k)
        c == NatCmp(a, b)
    IN  IF x.s = 0 THEN y
        ELSE IF y.s = 0 THEN x
        ELSE IF x.s = y.s THEN Comp(x.s, NatAdd(a, b), k)
        ELSE IF c = 0 THEN CZERO
        ELSE IF c > 0 THEN Comp(x.s, NatSub(a, b), k)
        ELSE Comp(y.s, NatSub(b, a), k)

\* x.add(y, context), x.sub(y, context), x.mul(y, context)
compAdd(x, y, context) == After(x, y, compRound(Sum(x, y), context))

compSub(x, y, context) == After(x, y, compRound(Sum(x, compNeg(y)), context))

compMul(x, y, context) ==
    After(x, y, compRound(Comp(x.s * y.s, NatMul(x.m, y.m), x.k + y.k), context))

\* x.div(y, context): the quotient rounded at context.precision
compDiv(x, y, context) ==
    LET e == y.k + context.precision - x.k
        num == IF e >= 0 THEN NatShift10(x.m, e) ELSE x.m
        den == IF e >= 0 THEN y.m ELSE NatShift10(y.m, -e)
        d == NatDivMod(num, den)
        r == Rounded(x.s * y.s, d.q, d.r, den, context.rounding)
    IN  After(x, y,
              IF y.s = 0
              THEN Failed(IF x.s = 0 THEN "IndeterminateForm"
                          ELSE "DivisionByZero", 0)
              ELSE IF r.err # "none" THEN Failed(r.err, 0)
              ELSE Comp(x.s * y.s, r.m, context.precision))

\* x.mod(y, context) for y > 0: the remainder in [0, y)
compMod(x, y, context) ==
    LET k == Max(x.k, y.k)
        a == NatShift10(x.m, k - x.k)
        b == NatShift10(y.m, k - y.k)
        r == NatDivMod(a, b).r
    IN  After(x, y,
              IF y.s = 0 THEN Failed("DivisionByZero", 0)
              ELSE compRound(Comp(1, IF x.s >= 0 \/ r = <<>> THEN r
                                     ELSE NatSub(b, r), k), context))

\* x.pow(Component.create("0.5"), context): the square root
compSqrt(x, context) ==
    LET p == IF 2 * context.precision >= x.k THEN context.precision
             ELSE (x.k + 1) \div 2
        n == NatShift10(x.m, 2 * p - x.k)
        f == NatSqrt(n)
        rest == NatSub(n, NatMul(f, f))
        up == NatAdd(f, <<1>>)
        rounding == context.rounding
        root == IF rest = <<>> \/ rounding \in {"DOWN", "FLOOR"} THEN f
                ELSE IF rounding \in {"UP", "CEIL"} THEN up
                ELSE IF NatCmp(rest, f) > 0 THEN up ELSE f
    IN  IF x.err # "none" THEN x
        ELSE IF x.s < 0 THEN Failed("UndefinedValue", x.work)
        ELSE IF rest # <<>> /\ rounding = "UNNECESSARY"
        THEN Failed("RoundingNecessary", x.work)
        ELSE After(x, x, compRound(Comp(1, root, p), context))

\* x.equals(y, context): equal once both are rounded as the context says
compEquals(x, y, context) ==
    LET a == compRound(x, context)
        b == compRound(y, context)
    IN  IF a.err # "none" THEN [err |-> a.err, val |-> FALSE]
        ELSE IF b.err # "none" THEN [err |-> b.err, val |-> FALSE]
        ELSE [err |-> "none", val |-> a.s = b.s /\ a.m = b.m /\ a.k = b.k]

(***************************************************************************)
(* The transcendental functions of TrigCyclic and TrigHyperbolic.  A       *)
(* series loop that has summed MaxTerms terms without leaving is reported  *)
(* as the outcome "NoReturn"; work counts the terms a result was summed    *)
(* from.                                                                   *)
(***************************************************************************)
MaxTerms == 48

\* the context ctx a function builds from the context it is given
Working(fn, context) ==
    [precision |-> IF fn \in {"asin", "acos", "atan", "atan2", "tanh", "atanh"}
                   THEN context.precision + 5
                   ELSE 2 * context.precision,
     rounding |-> context.rounding]

\* the value a loop returns after n terms
Summed(v, n) == [v EXCEPT !.work = Max(v.work, n)]

\* a series loop: the variables before a pass of its body, or the outcome
\* with which a pass left it
Going(sum, term, temp, f, n) ==
    [done |-> FALSE, out |-> NoResult, sum |-> sum, term |-> term,
     temp |-> temp, f |-> f, n |-> n]

Left(v) ==
    [done |-> TRUE, out |-> v, sum |-> NoResult, term |-> NoResult,
     temp |-> NoResult, f |-> NoResult, n |-> 0]

\* while(true) around a loop body: the outcome with which it is left, or
\* "NoReturn" when MaxTerms passes have not left it
While(pass(_), st) ==
    LET last == Passes(pass, st, MaxTerms)
    IN  IF last.done THEN last.out ELSE Failed("NoReturn", last.n)

\* Exponent.ln(x, context), by its contract: it fails on a non-positive
\* argument, ln(1) is zero, and any other value is the one the caller's
\* oracle names, rounded as the context says
ln(x, context, guess) ==
    IF x.err # "none" THEN x
    ELSE IF x.s <= 0 THEN Failed("UndefinedValue", x.work)
    ELSE IF compareTo(x, CONE) = 0 THEN CZERO
    ELSE After(x, x, compRound(guess, context))

sin(x0, context) ==
    LET c == Working("sin", context)
        x == compMod(x0, compMul(CTWO, PI, c), c)
        isPi == compEquals(compAbs(x, context), PI, context)
        x_sq == compMul(x, x, c)
        pass(st) ==
            LET sum == compAdd(st.sum, st.term, c)
                f == create((2 * st.n + 2) * (2 * st.n + 3), 0)
                term1 == compNeg(compDiv(compMul(st.term, x_sq, c), f, c))
            IN  IF sum.err # "none" THEN Left(sum)
                ELSE IF term1.err # "none" THEN Left(term1)
                ELSE IF compEquals(term1, CZERO, c).val
                THEN Left(Summed(compRound(sum, context), st.n + 1))
                ELSE Going(sum, term1, term1, CONE, st.n + 1)
    IN  IF x.err # "none" THEN x
        ELSE IF isPi.err # "none" THEN Failed(isPi.err, 0)
        ELSE IF isPi.val THEN CZERO
        ELSE IF x_sq.err # "none" THEN x_sq
        ELSE While(pass, Going(CZERO, x, x, CONE, 0))

cos(x0, context) ==
    LET c == Working("cos", context)
        x == compMod(x0, compMul(CTWO, PI, c), c)
        x_sq == compMul(x, x, c)
        pass(st) ==
            LET sum == compAdd(st.sum, st.term, c)
                f == create((2 * st.n + 1) * (2 * st.n + 2), 0)
                term1 == compNeg(compDiv(compMul(st.term, x_sq, c), f, c))
            IN  IF sum.err # "none" THEN Left(sum)
                ELSE IF term1.err # "none" THEN Left(term1)
                ELSE IF compEquals(term1, CZERO, c).val
                THEN Left(Summed(compRound(sum, context), st.n + 1))
                ELSE Going(sum, term1, term1, CONE, st.n + 1)
    IN  IF x_sq.err # "none" THEN x_sq
        ELSE While(pass, Going(CZERO, CONE, CONE, CONE, 0))

tan(x, context) ==
    LET c == Working("tan", context)
    IN  compRound(compDiv(sin(x, c), cos(x, c), c), context)

asin_less(x, context) ==
    LET c == Working("asin_less", context)
        x_sq == compMul(x, x, c)
        pass(st) ==
            LET sum == compAdd(st.sum, st.temp, c)
                f1 == create(2 * st.n + 3, 0)
                fac == compDiv(st.f, create(2 * st.n + 2, 0), c)
                term1 == compMul(compMul(st.term, x_sq, c), fac, c)
                temp1 == compDiv(term1, f1, c)
            IN  IF sum.err # "none" THEN Left(sum)
                ELSE IF temp1.err # "none" THEN Left(temp1)
                ELSE IF compEquals(temp1, CZERO, c).val
                THEN Left(Summed(compRound(sum, context), st.n + 1))
                ELSE Going(sum, term1, temp1, f1, st.n + 1)
    IN  IF x_sq.err # "none" THEN x_sq
        ELSE While(pass, Going(CZERO, x, x, CONE, 0))

\* the domain check of asin and of acos
NotInsideUnit(x, context) == ~lessThan(compAbs(x, context), CONE)

OutsideUnit(x, context) == moreThan(compAbs(x, context), CONE)

RECURSIVE asin(_, _)
asin(x, context) ==
    LET half == create(5, 1)
        c == Working("asin", context)
        piBy2 == compDiv(PI, CTWO, c)
        z == compDiv(compSub(CONE, x, c), CTWO, c)
        s == compSqrt(z, c)
        temp == asin_less(s, c)
        res == compSub(piBy2, compMul(CTWO, temp, c), c)
    IN  IF OutsideUnit(x, context) THEN Failed("UndefinedValue", 0)
        ELSE IF lessThan(x, CZERO) THEN compNeg(asin(compNeg(x), context))
        ELSE IF lessThan(x, half) THEN asin_less(x, context)
        ELSE compRound(res, context)

acos(x, context) ==
    LET c == Working("acos", context)
        half == create(5, 1)
        z == compDiv(compSub(CONE, x, c), CTWO, c)
        s == compSqrt(z, c)
        temp == asin(s, c)
    IN  IF OutsideUnit(x, context) THEN Failed("UndefinedValue", 0)
        ELSE IF lessThan(compAbs(x, context), half)
        THEN compRound(compSub(compMul(PI, half, c), asin_less(x, c), c),
                       context)
        ELSE IF s.err # "none" THEN s
        ELSE compRound(compMul(CTWO, temp, c), context)

atan_less(x, context) ==
    LET c == Working("atan_less", context)
        x_sq == compMul(x, x, c)
        pass(st) ==
            LET sum == compAdd(st.sum, st.term, c)
                temp1 == compNeg(compMul(st.temp, x_sq, c))
                f == create(2 * st.n + 3, 0)
                term1 == compDiv(temp1, f, c)
            IN  IF sum.err # "none" THEN Left(sum)
                ELSE IF term1.err # "none" THEN Left(term1)
                ELSE IF compEquals(term1, CZERO, c).val
                THEN Left(Summed(compRound(sum, context), st.n + 1))
                ELSE Going(sum, term1, temp1, CONE, st.n + 1)
    IN  IF x_sq.err # "none" THEN x_sq
        ELSE While(pass, Going(CZERO, x, x, CONE, 0))

\* the first limit of atan, 0.414213562373
Limit1Half == create(5, 1)

Limit1 == Comp(1, <<2373, 1356, 4142>>, 12)

\* the region atan selects for x > 0: the argument it hands to atan_less,
\* the reference angle and the sign the series value is combined with
Reduction(x, c) ==
    LET limit1 == Limit1
        limit2 == CONE
        limit3 == Comp(1, <<2373, 1356, 4142, 2>>, 12)
        FOUR == create(4, 0)
    IN  IF lessThan(x, limit1)
        THEN [region |-> 1, less |-> x, referenceValue |-> CZERO, sign |-> 1]
        ELSE IF lessThan(x, limit2)
        THEN [region |-> 2,
              less |-> compDiv(compSub(CONE, x, c), compAdd(CONE, x, c), c),
              referenceValue |-> compDiv(PI, FOUR, c), sign |-> -1]
        ELSE IF lessThan(x, limit3)
        THEN [region |-> 3,
              less |-> compDiv(compSub(x, CONE, c), compAdd(x, CONE, c), c),
              referenceValue |-> compDiv(PI, FOUR, c), sign |-> 1]
        ELSE [region |-> 4, less |-> compDiv(CONE, x, c),
              referenceValue |-> compDiv(PI, CTWO, c), sign |-> -1]

\* the value atan combines from a reduction
Combined(r, c, context) ==
    LET res == IF r.sign = 1
               THEN compAdd(r.referenceValue, atan_less(r.less, c), c)
               ELSE compSub(r.referenceValue, atan_less(r.less, c), c)
    IN  compRound(res, context)

RECURSIVE atan(_, _)
atan(x, context) ==
    LET isZero == compEquals(x, CZERO, context)
        c == Working("atan", context)
    IN  IF x.err # "none" THEN x
        ELSE IF isZero.err # "none" THEN Failed(isZero.err, 0)
        ELSE IF isZero.val THEN CZERO
        ELSE IF lessThan(x, CZERO) THEN compNeg(atan(compNeg(x), context))
        ELSE Combined(Reduction(x, c), c, context)

\* the half turn atan2 adds for x < 0
TurnedBack(value, yComp, c) ==
    IF yComp = -1 THEN compAdd(value, PI, c) ELSE compSub(value, PI, c)

Turned(value, yComp, c) ==
    IF yComp = -1 THEN compSub(value, PI, c) ELSE compAdd(value, PI, c)

atan2(y, x, context) ==
    LET yComp == compareTo(y, CZERO)
        xComp == compareTo(x, CZERO)
        pi == PI
        two == CTWO
        c == Working("atan2", context)
        argument == compDiv(y, x, c)
        value == atan(argument, c)
        res == Turned(value, yComp, c)
    IN  IF xComp = 0 /\ yComp = 0 THEN Failed("UndefinedValue", 0)
        ELSE IF xComp = 0
        THEN (IF yComp = -1 THEN compNeg(compDiv(pi, two, context))
              ELSE compDiv(pi, two, context))
        ELSE IF xComp = 1 THEN atan(argument, context)
        ELSE compRound(res, context)

sinh(x, context) ==
    LET c == Working("sinh", context)
        x_sq == compMul(x, x, c)
        pass(st) ==
            LET sum == compAdd(st.sum, st.term, c)
                f == create((2 * st.n + 2) * (2 * st.n + 3), 0)
                term1 == compDiv(compMul(st.term, x_sq, c), f, c)
            IN  IF sum.err # "none" THEN Left(sum)
                ELSE IF term1.err # "none" THEN Left(term1)
                ELSE IF compEquals(term1, CZERO, c).val
                THEN Left(Summed(compRound(sum, context), st.n + 1))
                ELSE Going(sum, term1, term1, CONE, st.n + 1)
    IN  IF x_sq.err # "none" THEN x_sq
        ELSE While(pass, Going(CZERO, x, x, CONE, 0))

cosh(x, context) ==
    LET c == Working("cosh", context)
        x_sq == compMul(x, x, c)
        pass(st) ==
            LET sum == compAdd(st.sum, st.term, c)
                f == create((2 * st.n + 1) * (2 * st.n + 2), 0)
                term1 == compDiv(compMul(st.term, x_sq, c), f, c)
            IN  IF sum.err # "none" THEN Left(sum)
                ELSE IF term1.err # "none" THEN Left(term1)
                ELSE IF compEquals(term1, CZERO, c).val
                THEN Left(Summed(compRound(sum, context), st.n + 1))
                ELSE Going(sum, term1, term1, CONE, st.n + 1)
    IN  IF x_sq.err # "none" THEN x_sq
        ELSE While(pass, Going(CZERO, CONE, CONE, CONE, 0))

RECURSIVE tanh(_, _)
tanh(x, context) ==
    LET isZero == compEquals(x, CZERO, context)
        c == Working("tanh", context)
        res == compDiv(sinh(x, c), cosh(x, c), c)
    IN  IF lessThan(x, CZERO) THEN compNeg(tanh(compNeg(x), context))
        ELSE IF isZero.err # "none" THEN Failed(isZero.err, 0)
        ELSE IF isZero.val THEN CZERO
        ELSE compRound(res, context)

asinh(x, context, guess) ==
    LET c == Working("asinh", context)
        a == x
        b == compSqrt(compAdd(compMul(x, x, c), CONE, c), c)
        exp == compAdd(a, b, c)
        res == ln(exp, c, guess[1])
    IN  compRound(res, context)

acosh(x, context, guess) ==
    LET c == Working("acosh", context)
        a == x
        b == compSqrt(compSub(compMul(x, x, c), CONE, c), c)
        exp == compAdd(a, b, c)
        res == ln(exp, c, guess[1])
    IN  IF lessThan(x, CONE) THEN Failed("UndefinedValue", 0)
        ELSE compRound(res, context)

RECURSIVE atanh(_, _, _)
atanh(x, context, guess) ==
    LET isZero == compEquals(x, CZERO, context)
        c == Working("atanh", context)
        half == create(5, 1)
        a == ln(compAdd(CONE, x, c), c, guess[1])
        b == ln(compSub(CONE, x, c), c, guess[2])
        res == compMul(half, compSub(a, b, c), c)
    IN  IF moreThan(compAbs(x, context), CONE) THEN Failed("UndefinedValue", 0)
        ELSE IF lessThan(x, CZERO)
        THEN compNeg(atanh(compNeg(x), context, guess))
        ELSE IF isZero.err # "none" THEN Failed(isZero.err, 0)
        ELSE IF isZero.val THEN CZERO
        ELSE compRound(res, context)

(***************************************************************************)
(* The state machine of the transcendental functions: one call of one      *)
(* function, on an argument, under a context.  The functions are pure, so  *)
(* a call does not depend on the calls before it.                          *)
(***************************************************************************)
\* the arguments of sin, cos, tan and the hyperbolic functions: -1, 0, 1, 4
Angles == {create(-1, 0), CZERO, CONE, create(4, 0)}

\* the arguments of asin, acos and the inverse hyperbolic functions: -2, -1,
\* -0.5, 0, 0.3, 0.5, 1 and 1.1
Ratios ==
    { create(-2, 0), create(-1, 0), create(-5, 1), CZERO, create(3, 1),
      create(5, 1), CONE, create(11, 1) }

\* the arguments of atan: -1, 0, 0.3, 0.414213562373, 0.5, 1, 2, 2.4142
\* and 3
Slopes ==
    { create(-1, 0), CZERO, create(3, 1), Comp(1, <<2373, 1356, 4142>>, 12),
      create(5, 1), CONE, CTWO, create(24142, 4), create(3, 0) }

\* the coordinates atan2 is called with
Coordinates == {create(-2, 0), create(-1, 0), CZERO, CONE}

\* what ln answers for the arguments its contract leaves open
Guesses ==
    { <<create(693147181, 9), create(-693147181, 9)>>,
      <<create(1098612289, 9), create(-2, 0)>> }

TrigApply(name, x, y, context, guess, res) ==
    /\ top = "init"
    /\ top' = name
    /\ tin' = [x |-> x, y |-> y, context |-> context, guess |-> guess]
    /\ tout' = res
    /\ UNCHANGED dvars
    /\ UNCHANGED hvars
    /\ UNCHANGED vvars

Sin ==
    \E x \in Angles, context \in Contexts :
        TrigApply("sin", x, NoResult, context, <<>>, sin(x, context))

Cos ==
    \E x \in Angles, context \in Contexts :
        TrigApply("cos", x, NoResult, context, <<>>, cos(x, context))

Tan ==
    \E x \in Angles, context \in Contexts :
        TrigApply("tan", x, NoResult, context, <<>>, tan(x, context))

Asin ==
    \E x \in Ratios, context \in Contexts :
        TrigApply("asin", x, NoResult, context, <<>>, asin(x, context))

Acos ==
    \E x \in Ratios, context \in Contexts :
        TrigApply("acos", x, NoResult, context, <<>>, acos(x, context))

Atan ==
    \E x \in Slopes, context \in Contexts :
        TrigApply("atan", x, NoResult, context, <<>>, atan(x, context))

Atan2 ==
    \E y \in Coordinates, x \in Coordinates, context \in Contexts :
        TrigApply("atan2", x, y, context, <<>>, atan2(y, x, context))

Sinh ==
    \E x \in Angles, context \in Contexts :
        TrigApply("sinh", x, NoResult, context, <<>>, sinh(x, context))

Cosh ==
    \E x \in Angles, context \in Contexts :
        TrigApply("cosh", x, NoResult, context, <<>>, cosh(x, context))

Tanh ==
    \E x \in Angles, context \in Contexts :
        TrigApply("tanh", x, NoResult, context, <<>>, tanh(x, context))

Asinh ==
    \E x \in Angles, context \in Contexts, guess \in Guesses :
        TrigApply("asinh", x, NoResult, context, guess,
                  asinh(x, context, guess))

Acosh ==
    \E x \in Ratios, context \in Contexts, guess \in Guesses :
        TrigApply("acosh", x, NoResult, context, guess,
                  acosh(x, context, guess))

Atanh ==
    \E x \in Ratios, context \in Contexts, guess \in Guesses :
        TrigApply("atanh", x, NoResult, context, guess,
                  atanh(x, context, guess))

TrigNext ==
    \/ Sin
    \/ Cos
    \/ Tan
    \/ Asin
    \/ Acos
    \/ Atan
    \/ Atan2
    \/ Sinh
    \/ Cosh
    \/ Tanh
    \/ Asinh
    \/ Acosh
    \/ Atanh

TrigSpec == Init /\ [][TrigNext]_vars

\* the outcome of the call is a value
Returns == top # "init" /\ tout.err = "none"

(***************************************************************************)
(* The claims about the transcendental functions.                          *)
(***************************************************************************)
\* |x| against 1: negative below, zero at, positive above
AgainstOne(x) == NatCmp(x.m, NatPow10(x.k))

\* C21 (as claimed): asin(x) and acos(x) fail with UndefinedValue for every
\* x with |x| > 1, before any term of a series is summed, and raise no
\* error for any x with |x| <= 1.
C21_DomainError ==
    top \in {"asin", "acos"} =>
        IF AgainstOne(tin.x) > 0
        THEN tout.err = "UndefinedValue" /\ tout.work = 0
        ELSE tout.err \in {"none", "NoReturn"}

\* C21 (amended): asin(x) and acos(x) fail with UndefinedValue for every x
\* with |x| > 1, before any term of a series is summed, and for |x| <= 1
\* they raise no error but the rounding-necessary error of the rounding
\* mode UNNECESSARY.
C21_DomainErrorOnly ==
    top \in {"asin", "acos"} =>
        IF AgainstOne(tin.x) > 0
        THEN tout.err = "UndefinedValue" /\ tout.work = 0
        ELSE \/ tout.err \in {"none", "NoReturn"}
             \/ /\ tin.context.rounding = "UNNECESSARY"
                /\ tout.err = "RoundingNecessary"

\* acos has refused an argument below -1
C21_Witness ==
    /\ top = "acos"
    /\ tin.x.s < 0
    /\ AgainstOne(tin.x) > 0
    /\ tout.err = "UndefinedValue"

\* C22: atanh(x) fails with UndefinedValue for every x with |x| >= 1, the
\* boundary values 1 and -1 included, and returns no value for such x.
C22_AtanhDomain ==
    top = "atanh" /\ AgainstOne(tin.x) >= 0 => tout.err = "UndefinedValue"

\* the angle the documented cases of atan2 give for (y, x) other than (0, 0)
QuadrantAngle(y, x, context) ==
    LET c == [precision |-> context.precision + 5,
              rounding |-> context.rounding]
        quotient == compDiv(y, x, c)
    IN  IF x.s = 0
        THEN (IF y.s > 0 THEN compDiv(PI, CTWO, context)
              ELSE compNeg(compDiv(PI, CTWO, context)))
        ELSE IF x.s > 0 THEN atan(quotient, context)
        ELSE IF y.s >= 0
        THEN compRound(compAdd(atan(quotient, c), PI, c), context)
        ELSE compRound(compSub(atan(quotient, c), PI, c), context)

\* the angle v lies in (-pi - margin, pi + margin), which for an angle of
\* finitely many digits and margin 0 is the interval (-pi, pi]
WithinHalfTurn(v, margin) ==
    /\ lessThan(compNeg(Sum(PI, margin)), v)
    /\ lessThan(v, Sum(PI, margin))

C24_SeriesReturn ==
    /\ top \in {"sin", "cos", "sinh", "cosh", "asin", "atan"}
    /\ top = "asin" => AgainstOne(tin.x) <= 0
    => tout.err # "NoReturn"

\* two outcomes are the same error or the same number
SameOutcome(a, b) == a.err = b.err /\ a.s = b.s /\ a.m = b.m /\ a.k = b.k

\* v < sqrt(2), for v >= 0
BelowRootTwo(v) == lessThan(Comp(1, NatMul(v.m, v.m), 2 * v.k), CTWO)

\* the region of x > 0 when the regions are split at sqrt(2) - 1, 1 and
\* sqrt(2) + 1
RegionOf(x) ==
    IF lessThan(x, CONE)
    THEN (IF BelowRootTwo(Sum(x, CONE)) THEN 1 ELSE 2)
    ELSE (IF BelowRootTwo(Sum(x, compNeg(CONE))) THEN 3 ELSE 4)

\* the region of x > 0 when the regions are split at 0.414213562373, 1 and
\* 2.414213562373
RegionCut(x) ==
    IF lessThan(x, Comp(1, <<2373, 1356, 4142>>, 12)) THEN 1
    ELSE IF lessThan(x, CONE) THEN 2
    ELSE IF lessThan(x, Comp(1, <<2373, 1356, 4142, 2>>, 12)) THEN 3
    ELSE 4

\* the reduced argument, the reference angle and the sign of a region
ReducedBy(region, x, c) ==
    CASE region = 1 -> [less |-> x, referenceValue |-> CZERO, sign |-> 1]
      [] region = 2 ->
           [less |-> compDiv(compSub(CONE, x, c), compAdd(CONE, x, c), c),
            referenceValue |-> compDiv(PI, create(4, 0), c), sign |-> -1]
      [] region = 3 ->
           [less |-> compDiv(compSub(x, CONE, c), compAdd(x, CONE, c), c),
            referenceValue |-> compDiv(PI, create(4, 0), c), sign |-> 1]
      [] OTHER ->
           [less |-> compDiv(CONE, x, c),
            referenceValue |-> compDiv(PI, CTWO, c), sign |-> -1]

\* what atan is claimed to do with x when region is the region of |x| and
\* the reduced argument is to satisfy small
AtanBy(x, context, region, small(_)) ==
    LET c == [precision |-> context.precision + 5,
              rounding |-> context.rounding]
        r == Reduction(x, c)
        e == ReducedBy(region, x, c)
    IN  IF x.s = 0 THEN SameOutcome(tout, CZERO)
        ELSE IF x.s < 0
        THEN SameOutcome(tout, compNeg(atan(compNeg(x), context)))
        ELSE /\ r.region = region
             /\ r.less = e.less
             /\ r.referenceValue = e.referenceValue
             /\ r.sign = e.sign
             /\ r.less.err = "none" => r.less.s >= 0 /\ small(r.less)
             /\ SameOutcome(tout, Combined(r, c, context))

\* v < sqrt(2) - 1, for v >= 0
BelowThreshold(v) == BelowRootTwo(Sum(v, CONE))

\* v < 0.4143
BelowCut(v) == lessThan(v, create(4143, 4))

C28_Boosted ==
    top # "init" =>
        /\ Working(top, tin.context).precision > tin.context.precision
        /\ tout.err = "none" => tout.k <= tin.context.precision
====
